---------------------------- MODULE Spec2Model ----------------------------
(***************************************************************************)
(* Model of the WhatsApp evangelism bot's report path:                     *)
(*   src/src/utils/groupReportParser.js   parseReport, convertDateFormat,  *)
(*                                        validateParsedReport             *)
(*   src/src/forms/formValidator.js       validateDate                     *)
(*   src/unnamed/part_004                 handleGroupMessage               *)
(*   src/unnamed/part_003                 getAssemblyByGroupJid,           *)
(*                                        createGroupReport,               *)
(*                                        getReportsForAssembly            *)
(*   src/src/services/aiReportGenerator.js  generateAssemblyReport and     *)
(*                                        the deduplication it uses        *)
(*   src/unnamed/part_005                 handleMessage and the test-report*)
(*                                        session                          *)
(*   src/src/forms/formValidator.js       the report form, step by step    *)
(*   src/src/services/groupPoster.js      postReportToGroup and its retry  *)
(*   src/src/bot/connection.js            handleMessageDelete              *)
(*   src/src/services/scheduler.js        the monthly distribution         *)
(*                                                                         *)
(* A JavaScript string is a sequence of one-character strings. Offsets     *)
(* into a string are 0-based, as in the source. A JavaScript value is a    *)
(* record [t, s, n]: t is its type tag, s its characters when it is a      *)
(* string, n its number when it is a number.                               *)
(***************************************************************************)
EXTENDS Integers, Sequences, FiniteSets, TLC

VARIABLES
    messageText,  \* the text handed to parseReport / handleGroupMessage
    report,       \* the ParsedReport object (field -> value)
    validation,   \* the result of validateParsedReport
    pc,           \* position in the pipeline under study
    today,        \* the calendar date of `new Date()` (UTC), [y, m, d]
    tzWest,       \* TRUE when the process runs in a time zone west of UTC
    dateInput,    \* the input of the date normalizer under study
    normalized,   \* what convertDateFormat returned for dateInput
    reparsed,     \* what validateDate returned for the normalizer's output
    msg,          \* the group message being handled (key fields)
    reportsTable, \* rows of the `reports` table, in insertion order
    outbox,       \* messages sent through sock.sendMessage, in order
    handled,      \* number of group messages handled so far
    batch,        \* the records getReportsForAssembly returned, in order
    collaborator, \* how the narrative-generation collaborator ends
    mapFails,     \* whether drawing the location map fails
    assemblyReport, \* what generateAssemblyReport returned for the batch
    refed,        \* the lists of assemblyReport deduplicated once more
    reordered,    \* what generateAssemblyReport returned for the batch reordered
    formState,    \* the user's row of the form-state table (getUserFormState)
    testReportState, \* the user's entry of the testReportState Map
    replies,      \* what the latest call of handleMessage sent, in order
    routed,       \* the handlers the latest call of handleMessage called
    before,       \* the sessions and the number of reports before that call
    calls,        \* the invocations of postReportToGroup, each at its await
    savedFrom,    \* the group messages saved as reports: message key and report id
    deleted,      \* the latest deletion event: its keys and whether a call failed
    assemblyReports, \* what generateAssemblyReports returned to the monthly run
    monthlyRun    \* the monthly run: what failed in it and the socket it got

parseVars == <<messageText, report, validation>>
envVars == <<today, tzWest>>
dateVars == <<dateInput, normalized, reparsed>>
groupVars == <<msg, reportsTable, outbox, handled>>
aggVars == <<batch, collaborator, mapFails, assemblyReport, refed, reordered>>

chatVars == <<formState, testReportState, replies, routed, before>>
postVars == <<calls>>
deleteVars == <<savedFrom, deleted>>
monthlyVars == <<assemblyReports, monthlyRun>>
restVars == <<chatVars, postVars, deleteVars, monthlyVars>>

vars == <<parseVars, envVars, dateVars, groupVars, aggVars, restVars, pc>>

(***************************************************************************)
(* JavaScript values and strings                                           *)
(***************************************************************************)
Str(s) == [t |-> "string", s |-> s, n |-> 0]
Num(n) == [t |-> "number", s |-> <<>>, n |-> n]
Null == [t |-> "null", s |-> <<>>, n |-> 0]
Undefined == [t |-> "undefined", s |-> <<>>, n |-> 0]
NaN == [t |-> "NaN", s |-> <<>>, n |-> 0]
True == [t |-> "boolean", s |-> <<>>, n |-> 1]
False == [t |-> "boolean", s |-> <<>>, n |-> 0]

\* JavaScript truthiness of a value (the `!x`, `x || y`, `x && y` tests).
Truthy(v) ==
    CASE v.t = "string" -> v.s # <<>>
      [] v.t = "number" -> v.n # 0
      [] v.t = "boolean" -> v.n # 0
      [] OTHER -> FALSE

\* report[field] / report.field: undefined when the key is absent.
Get(obj, field) == IF field \in DOMAIN obj THEN obj[field] ELSE Undefined

\* obj[field] = value
Put(obj, field, value) ==
    [f \in DOMAIN obj \cup {field} |-> IF f = field THEN value ELSE obj[f]]

EmptyObject == [f \in {} |-> Null]

UpperCase == <<"A", "B", "C", "D", "E", "F", "G", "H", "I", "J", "K", "L", "M", "N", "O", "P", "Q", "R", "S", "T", "U", "V", "W", "X", "Y", "Z">>
LowerCase == <<"a", "b", "c", "d", "e", "f", "g", "h", "i", "j", "k", "l", "m", "n", "o", "p", "q", "r", "s", "t", "u", "v", "w", "x", "y", "z">>
Digits == <<"0", "1", "2", "3", "4", "5", "6", "7", "8", "9">>
HexDigits == <<"0", "1", "2", "3", "4", "5", "6", "7", "8", "9", "a", "b", "c", "d", "e", "f">>

UpperSet == {UpperCase[i] : i \in DOMAIN UpperCase}
LowerSet == {LowerCase[i] : i \in DOMAIN LowerCase}
DigitSet == {Digits[i] : i \in DOMAIN Digits}

LowerOf == [c \in UpperSet |-> LowerCase[CHOOSE i \in DOMAIN UpperCase : UpperCase[i] = c]]
UpperOf == [c \in LowerSet |-> UpperCase[CHOOSE i \in DOMAIN LowerCase : LowerCase[i] = c]]

toLowerCase(s) == [i \in 1..Len(s) |-> IF s[i] \in UpperSet THEN LowerOf[s[i]] ELSE s[i]]
toUpperCase(s) == [i \in 1..Len(s) |-> IF s[i] \in LowerSet THEN UpperOf[s[i]] ELSE s[i]]

\* the regular-expression class \s, and what String.prototype.trim removes
IsSpace(c) == c \in {" ", "\t", "\n", "\r"}

Min(S) == CHOOSE x \in S : \A y \in S : x <= y
\* (the successor of the greatest element is not in S: said first, it spares
\* the comparison with all of S for every other element)
Max(S) == CHOOSE x \in S : x + 1 \notin S /\ \A y \in S : x >= y

trim(s) ==
    LET keep == {i \in 1..Len(s) : ~IsSpace(s[i])}
    IN  IF keep = {} THEN <<>> ELSE SubSeq(s, Min(keep), Max(keep))

\* String.prototype.substring(a, b): arguments clamped to [0, length] and
\* swapped when a > b.
substring(s, a, b) ==
    LET ca == IF a < 0 THEN 0 ELSE IF a > Len(s) THEN Len(s) ELSE a
        cb == IF b < 0 THEN 0 ELSE IF b > Len(s) THEN Len(s) ELSE b
    IN  IF ca <= cb THEN SubSeq(s, ca + 1, cb) ELSE SubSeq(s, cb + 1, ca)

startsWith(s, prefix) ==
    Len(prefix) <= Len(s) /\ SubSeq(s, 1, Len(prefix)) = prefix

endsWith(s, suffix) ==
    Len(suffix) <= Len(s) /\ SubSeq(s, Len(s) - Len(suffix) + 1, Len(s)) = suffix

\* delete obj[field]
Delete(obj, field) == [f \in DOMAIN obj \ {field} |-> obj[f]]

\* Number.prototype.toString() of a non-negative integer
RECURSIVE toString(_)
toString(n) ==
    IF n < 10 THEN <<Digits[n + 1]>>
    ELSE toString(n \div 10) \o <<Digits[(n % 10) + 1]>>

\* String.prototype.padStart(width, '0')
RECURSIVE padStart(_, _)
padStart(s, width) == IF Len(s) >= width THEN s ELSE padStart(<<"0">> \o s, width)

DigitValue(c) == (CHOOSE i \in DOMAIN HexDigits : HexDigits[i] = c) - 1

\* value of the longest prefix of s made of digits of the radix; -1 when the
\* prefix is empty
RECURSIVE digitsPrefix(_, _, _, _)
digitsPrefix(s, radix, acc, seen) ==
    IF s # <<>> /\ (\E i \in 1..radix : HexDigits[i] = s[1])
    THEN digitsPrefix(Tail(s), radix, acc * radix + DigitValue(s[1]), TRUE)
    ELSE IF seen THEN acc ELSE -1

\* parseInt(string) with no radix argument: leading white space skipped, an
\* optional sign, a 0x/0X prefix selecting radix 16, then the longest prefix
\* of digits; NaN when there is none.
parseInt(str) ==
    LET keep == {i \in 1..Len(str) : ~IsSpace(str[i])}
        s0 == IF keep = {} THEN <<>> ELSE SubSeq(str, Min(keep), Len(str))
        neg == s0 # <<>> /\ s0[1] = "-"
        s1 == IF s0 # <<>> /\ s0[1] \in {"-", "+"} THEN Tail(s0) ELSE s0
        hex == Len(s1) >= 2 /\ s1[1] = "0" /\ s1[2] \in {"x", "X"}
        mag == IF hex THEN digitsPrefix(toLowerCase(SubSeq(s1, 3, Len(s1))), 16, 0, FALSE)
                      ELSE digitsPrefix(s1, 10, 0, FALSE)
    IN  IF mag < 0 THEN NaN ELSE Num(IF neg THEN 0 - mag ELSE mag)

\* the Number a string of decimal digits converts to (in `month - 1`, in the
\* arguments of new Date)
toNumber(s) == digitsPrefix(s, 10, 0, FALSE)

\* String.prototype.split(/[\/\-\.]/) and friends: the pieces between the
\* characters of seps, empty pieces included.
RECURSIVE split(_, _)
split(s, seps) ==
    LET cut == {i \in 1..Len(s) : s[i] \in seps}
    IN  IF cut = {} THEN <<s>>
        ELSE <<SubSeq(s, 1, Min(cut) - 1)>> \o split(SubSeq(s, Min(cut) + 1, Len(s)), seps)

(***************************************************************************)
(* Calendar dates and the date normalizer                                  *)
(***************************************************************************)
IsLeapYear(y) == (y % 4 = 0 /\ y % 100 # 0) \/ y % 400 = 0

DaysInMonth(y, m) ==
    IF m = 2 THEN (IF IsLeapYear(y) THEN 29 ELSE 28)
    ELSE IF m \in {4, 6, 9, 11} THEN 30 ELSE 31

Date(y, m, d) == [y |-> y, m |-> m, d |-> d]

\* Date.prototype.setDate(getDate() - 1)
PrevDay(date) ==
    IF date.d > 1 THEN Date(date.y, date.m, date.d - 1)
    ELSE IF date.m > 1 THEN Date(date.y, date.m - 1, DaysInMonth(date.y, date.m - 1))
    ELSE Date(date.y - 1, 12, 31)

\* a < b on calendar dates
DateBefore(a, b) ==
    \/ a.y < b.y
    \/ a.y = b.y /\ a.m < b.m
    \/ a.y = b.y /\ a.m = b.m /\ a.d < b.d

\* toISOString().split('T')[0] for a year in 0..9999
toISODate(date) ==
    padStart(toString(date.y), 4) \o <<"-">> \o padStart(toString(date.m), 2)
        \o <<"-">> \o padStart(toString(date.d), 2)

\* /^\d{4}-\d{2}-\d{2}$/
MatchesCanonicalDate(s) ==
    /\ Len(s) = 10
    /\ \A i \in {1, 2, 3, 4, 6, 7, 9, 10} : s[i] \in DigitSet
    /\ s[5] = "-" /\ s[8] = "-"

\* convertDateFormat: DD/MM/YYYY, DD-MM-YYYY, DD.MM.YYYY, "today",
\* "yesterday" to YYYY-MM-DD; null otherwise.
convertDateFormat(dateStr) ==
    IF dateStr = <<>> THEN Null
    ELSE
    LET lower == trim(toLowerCase(dateStr))
        parts == split(trim(dateStr), {"/", "-", "."})
    IN  IF lower = <<"t", "o", "d", "a", "y">> THEN Str(toISODate(today))
        ELSE IF lower = <<"y", "e", "s", "t", "e", "r", "d", "a", "y">> THEN Str(toISODate(PrevDay(today)))
        ELSE IF Len(parts) = 3
        THEN LET day == parseInt(parts[1])
                 month == parseInt(parts[2])
                 year == parseInt(parts[3])
             IN  IF /\ day.t = "number" /\ month.t = "number" /\ year.t = "number"
                    /\ day.n >= 1 /\ day.n <= 31
                    /\ month.n >= 1 /\ month.n <= 12
                    /\ year.n >= 2000
                 THEN Str(toString(year.n) \o <<"-">>
                          \o padStart(toString(month.n), 2) \o <<"-">>
                          \o padStart(toString(day.n), 2))
                 ELSE Null
        ELSE Null

(***************************************************************************)
(* The form's date validator (formValidator.js)                            *)
(*                                                                         *)
(* A Date object is [ok, date]: whether its time value is a number, and    *)
(* the calendar date its local getters (getFullYear, getMonth, getDate)    *)
(* return. The current local calendar date is taken to be `today`.         *)
(***************************************************************************)
InvalidDate == [ok |-> FALSE, date |-> Date(0, 1, 1)]

\* MakeDay's carry of a day number past the end of its month
RECURSIVE rollDays(_)
rollDays(date) ==
    IF date.d < 1 THEN PrevDay(Date(date.y, date.m, 1))
    ELSE IF date.d > DaysInMonth(date.y, date.m)
    THEN rollDays(IF date.m < 12
                  THEN Date(date.y, date.m + 1, date.d - DaysInMonth(date.y, date.m))
                  ELSE Date(date.y + 1, 1, date.d - DaysInMonth(date.y, date.m)))
    ELSE date

\* new Date(year, monthIndex, day): local time, a year below 100 counted from
\* 1900, month and day carried over
newDateLocal(year, monthIndex, day) ==
    LET y0 == IF year <= 99 THEN 1900 + year ELSE year
        y == IF monthIndex < 0 THEN y0 - 1 ELSE y0 + (monthIndex \div 12)
        m == IF monthIndex < 0 THEN 12 ELSE (monthIndex % 12) + 1
    IN  [ok |-> TRUE, date |-> rollDays(Date(y, m, day))]

\* new Date('YYYY-MM-DD'): midnight UTC of that day; V8 takes a day number up
\* to 31 in any month and carries it over. West of UTC that instant falls on
\* the previous local calendar day.
newDateISO(s) ==
    LET y == toNumber(SubSeq(s, 1, 4))
        m == toNumber(SubSeq(s, 6, 7))
        d == toNumber(SubSeq(s, 9, 10))
        utc == rollDays(Date(y, m, d))
    IN  IF m \in 1..12 /\ d \in 1..31
        THEN [ok |-> TRUE, date |-> IF tzWest THEN PrevDay(utc) ELSE utc]
        ELSE InvalidDate

\* /^\d{1,2}\/\d{1,2}\/\d{4}$/
MatchesDayMonthYear(s) ==
    LET parts == split(s, {"/"})
    IN  /\ Len(parts) = 3
        /\ Len(parts[1]) \in 1..2 /\ Len(parts[2]) \in 1..2 /\ Len(parts[3]) = 4
        /\ \A k \in 1..3 : \A i \in DOMAIN parts[k] : parts[k][i] \in DigitSet

\* new Date(string) for a string that is not YYYY-MM-DD: the outcome of the
\* engine's fallback parser is implementation-defined; taken to be either an
\* invalid date or the date the three numbers of the string spell
fallbackParse(s) ==
    LET parts == split(s, {"-"})
    IN  {InvalidDate} \cup
        (IF /\ Len(parts) = 3
            /\ \A k \in 1..3 : parts[k] # <<>> /\ \A i \in DOMAIN parts[k] : parts[k][i] \in DigitSet
            /\ toNumber(parts[2]) \in 1..12
            /\ toNumber(parts[3]) \in 1..28
         THEN {[ok |-> TRUE, date |-> Date(toNumber(parts[1]), toNumber(parts[2]),
                                            toNumber(parts[3]))]}
         ELSE {})

\* the Date objects validateDate may build for its input, lines 70-79
dateObjects(input) ==
    LET s == trim(input)
    IN  IF MatchesDayMonthYear(s)
        THEN LET parts == split(s, {"/"})
             IN  {newDateLocal(toNumber(parts[3]), toNumber(parts[2]) - 1,
                               toNumber(parts[1]))}
        ELSE IF MatchesCanonicalDate(s) THEN {newDateISO(s)}
        ELSE fallbackParse(s)

DateOk(value) == [valid |-> TRUE, value |-> value, error |-> ""]
DateError(error) == [valid |-> FALSE, value |-> <<>>, error |-> error]
NotReparsed == [valid |-> FALSE, value |-> <<>>, error |-> "not called"]

\* validateDate, lines 82-102, for the Date object built
validateDateObject(dateObj) ==
    IF ~dateObj.ok
    THEN DateError("Invalid date format. Please use DD/MM/YYYY, \"today\", or \"yesterday\".")
    ELSE IF DateBefore(today, dateObj.date)
    THEN DateError("Activity date cannot be in the future.")
    ELSE DateOk(toString(dateObj.date.y) \o <<"-">>
                \o padStart(toString(dateObj.date.m), 2) \o <<"-">>
                \o padStart(toString(dateObj.date.d), 2))

\* validateDate: the results it may return for its input
validateDate(input) ==
    LET trimmed == toLowerCase(trim(input))
    IN  IF trimmed = <<"t", "o", "d", "a", "y">> THEN {DateOk(toISODate(today))}
        ELSE IF trimmed = <<"y", "e", "s", "t", "e", "r", "d", "a", "y">> THEN {DateOk(toISODate(PrevDay(today)))}
        ELSE {validateDateObject(dateObj) : dateObj \in dateObjects(input)}

(***************************************************************************)
(* Field extractor (groupReportParser.js)                                  *)
(***************************************************************************)
stripWhatsAppFormatting(text) == SelectSeq(text, LAMBDA c : c \notin {"*", "_", "~"})

isEvangelismReport(text) ==
    /\ text # <<>>
    /\ startsWith(toUpperCase(trim(stripWhatsAppFormatting(text))), <<"E", "V", "A", "N", "G", "E", "L", "I", "S", "M", " ", "R", "E", "P", "O", "R", "T">>)

\* FIELD_ALIASES: the canonical fields and their aliases, in table order
FIELD_ALIASES ==
  << [field |-> "activity_date",
      aliases |-> << <<"D", "a", "t", "e">> >>],
     [field |-> "location",
      aliases |-> << <<"L", "o", "c", "a", "t", "i", "o", "n">>,
                    <<"P", "l", "a", "c", "e">>,
                    <<"V", "e", "n", "u", "e">> >>],
     [field |-> "area",
      aliases |-> << <<"A", "r", "e", "a">>,
                    <<"N", "e", "i", "g", "h", "b", "o", "u", "r", "h", "o", "o", "d">>,
                    <<"N", "e", "i", "g", "h", "b", "o", "r", "h", "o", "o", "d">> >>],
     [field |-> "city",
      aliases |-> << <<"C", "i", "t", "y">>,
                    <<"T", "o", "w", "n">> >>],
     [field |-> "activity_type",
      aliases |-> << <<"T", "y", "p", "e", " ", "o", "f", " ", "A", "c", "t", "i", "v", "i", "t", "y">>,
                    <<"A", "c", "t", "i", "v", "i", "t", "y", " ", "T", "y", "p", "e">>,
                    <<"T", "y", "p", "e", " ", "o", "f", " ", "E", "v", "a", "n", "g", "e", "l", "i", "s", "m">>,
                    <<"A", "c", "t", "i", "v", "i", "t", "y">>,
                    <<"T", "y", "p", "e">> >>],
     [field |-> "preachers_team",
      aliases |-> << <<"P", "r", "e", "a", "c", "h", "e", "r", "(", "s", ")", " ", "T", "e", "a", "m">>,
                    <<"P", "r", "e", "a", "c", "h", "e", "r", "s", " ", "T", "e", "a", "m">>,
                    <<"P", "r", "e", "a", "c", "h", "e", "r">>,
                    <<"P", "r", "e", "a", "c", "h", "e", "r", "s">>,
                    <<"T", "e", "a", "m">>,
                    <<"M", "i", "n", "i", "s", "t", "e", "r">>,
                    <<"M", "i", "n", "i", "s", "t", "e", "r", "s">> >>],
     [field |-> "message_summary",
      aliases |-> << <<"M", "e", "s", "s", "a", "g", "e", " ", "S", "u", "m", "m", "a", "r", "y">>,
                    <<"M", "e", "s", "s", "a", "g", "e", " ", "s", "u", "m", "m", "a", "r", "y">>,
                    <<"S", "u", "m", "m", "a", "r", "y">>,
                    <<"M", "e", "s", "s", "a", "g", "e">> >>],
     [field |-> "response_moments",
      aliases |-> << <<"R", "e", "s", "p", "o", "n", "s", "e", "/", "N", "o", "t", "a", "b", "l", "e", " ", "M", "o", "m", "e", "n", "t", "s">>,
                    <<"N", "o", "t", "a", "b", "l", "e", " ", "M", "o", "m", "e", "n", "t", "s">>,
                    <<"N", "o", "t", "a", "b", "l", "e", " ", "m", "o", "m", "e", "n", "t", "s">>,
                    <<"R", "e", "s", "p", "o", "n", "s", "e">>,
                    <<"M", "o", "m", "e", "n", "t", "s">>,
                    <<"H", "i", "g", "h", "l", "i", "g", "h", "t", "s">> >>],
     [field |-> "saved",
      aliases |-> << <<"S", "a", "v", "e", "d">>,
                    <<"C", "o", "n", "v", "e", "r", "t", "s">>,
                    <<"C", "o", "n", "v", "e", "r", "t">>,
                    <<"S", "o", "u", "l", "s", " ", "W", "o", "n">>,
                    <<"S", "o", "u", "l", "s">> >>],
     [field |-> "healed",
      aliases |-> << <<"H", "e", "a", "l", "e", "d">>,
                    <<"H", "e", "a", "l", "i", "n", "g">>,
                    <<"S", "i", "c", "k", " ", "p", "r", "a", "y", "e", "d", " ", "f", "o", "r">>,
                    <<"S", "i", "c", "k", " ", "P", "r", "a", "y", "e", "d", " ", "F", "o", "r">>,
                    <<"P", "r", "a", "y", "e", "d", " ", "f", "o", "r">>,
                    <<"S", "i", "c", "k">> >>],
     [field |-> "reporter_name",
      aliases |-> << <<"R", "e", "p", "o", "r", "t", "e", "r">>,
                    <<"R", "e", "p", "o", "r", "t", "e", "d", " ", "b", "y">>,
                    <<"S", "u", "b", "m", "i", "t", "t", "e", "d", " ", "b", "y">>,
                    <<"N", "a", "m", "e">> >>] >>

\* a faulty variant of buildAliasPattern for comparison: '=' is no separator
buildAliasPatternColonOnly(lower, p, alias) ==
    LET n == Len(alias)
    IN  IF p + n > Len(lower) \/ (\E j \in 1..n : lower[p + j] # alias[j]) THEN 0
        ELSE LET rest == {k \in (p + n + 1)..Len(lower) : ~IsSpace(lower[k])}
             IN  IF rest = {} THEN 0
                 ELSE IF lower[Min(rest)] = ":" THEN Min(rest) - p ELSE 0

\* buildAliasPattern: the alias, then \s*, then one of = and :, tried at the
\* 0-based offset p of a lower-cased text against a lower-cased alias (the
\* regular expression carries the i flag). The length of the match, 0 when
\* there is none.
buildAliasPattern(lower, p, alias) ==
    LET n == Len(alias)
    IN  IF p + n > Len(lower) \/ (\E j \in 1..n : lower[p + j] # alias[j]) THEN 0
        ELSE LET rest == {k \in (p + n + 1)..Len(lower) : ~IsSpace(lower[k])}
             IN  IF rest = {} THEN 0
                 ELSE IF lower[Min(rest)] \in {"=", ":"} THEN Min(rest) - p ELSE 0

\* buildFieldRegex: the alternation of the field's alias patterns
buildFieldRegex(fieldDef) ==
    [i \in DOMAIN fieldDef.aliases |-> toLowerCase(fieldDef.aliases[i])]

FieldRegexes == [k \in DOMAIN FIELD_ALIASES |-> buildFieldRegex(FIELD_ALIASES[k])]

NoMatch == [index |-> -1, length |-> 0]

\* messageText.match(regex) for a regex without the g flag: the leftmost
\* offset where an alternative matches, and there the first alternative.
match(lower, regex) ==
    LET hits == {p \in 0..(Len(lower) - 1) :
                    \E i \in DOMAIN regex : buildAliasPattern(lower, p, regex[i]) > 0}
    IN  IF hits = {} THEN NoMatch
        ELSE LET p == Min(hits)
                 i == Min({j \in DOMAIN regex : buildAliasPattern(lower, p, regex[j]) > 0})
             IN  [index |-> p, length |-> buildAliasPattern(lower, p, regex[i])]

\* parseReport, lines 110-122: one entry per field whose regex matches, in
\* the order of FIELD_ALIASES
RECURSIVE findMatchesFrom(_, _)
findMatchesFrom(lower, k) ==
    IF k > Len(FIELD_ALIASES) THEN <<>>
    ELSE LET m == match(lower, FieldRegexes[k])
         IN  (IF m.index >= 0
              THEN <<[field |-> FIELD_ALIASES[k].field,
                      matchStart |-> m.index,
                      valueStart |-> m.index + m.length]>>
              ELSE <<>>) \o findMatchesFrom(lower, k + 1)

findMatches(text) == findMatchesFrom(toLowerCase(text), 1)

\* Array.prototype.sort with (a, b) => a.matchStart - b.matchStart: a stable
\* sort, here by insertion
RECURSIVE insertMatch(_, _)
insertMatch(sorted, m) ==
    IF sorted = <<>> THEN <<m>>
    ELSE IF m.matchStart < Head(sorted).matchStart THEN <<m>> \o sorted
    ELSE <<Head(sorted)>> \o insertMatch(Tail(sorted), m)

RECURSIVE sortMatchesFrom(_, _)
sortMatchesFrom(matches, sorted) ==
    IF matches = <<>> THEN sorted
    ELSE sortMatchesFrom(Tail(matches), insertMatch(sorted, Head(matches)))

\* a faulty variant of sortMatches for comparison: line 125 left out
sortMatchesKeepTableOrder(matches) == matches

sortMatches(matches) == sortMatchesFrom(matches, <<>>)

\* value.replace(/[ \t]+/g, ' ')
RECURSIVE collapseSpaces(_)
collapseSpaces(s) ==
    IF s = <<>> THEN <<>>
    ELSE IF s[1] \in {" ", "\t"}
    THEN LET rest == {i \in 1..Len(s) : s[i] \notin {" ", "\t"}}
         IN  <<" ">> \o (IF rest = {} THEN <<>>
                         ELSE collapseSpaces(SubSeq(s, Min(rest), Len(s))))
    ELSE <<s[1]>> \o collapseSpaces(Tail(s))

\* value.replace(/\n\s*\n/g, '\n'): from a newline, the greedy \s* runs to
\* the last newline of the white-space run that starts there
RECURSIVE collapseBlankLines(_)
collapseBlankLines(s) ==
    IF s = <<>> THEN <<>>
    ELSE LET ends == {q \in 2..Len(s) :
                        s[q] = "\n" /\ \A j \in 1..q : IsSpace(s[j])}
         IN  IF s[1] = "\n" /\ ends # {}
             THEN <<"\n">> \o collapseBlankLines(SubSeq(s, Max(ends) + 1, Len(s)))
             ELSE <<s[1]>> \o collapseBlankLines(Tail(s))

\* a faulty variant of cleanValue for comparison: no trim
cleanValueNoTrim(raw) == collapseBlankLines(collapseSpaces(raw))

\* parseReport, lines 132-135
cleanValue(raw) == trim(collapseBlankLines(collapseSpaces(trim(raw))))

\* parseReport, lines 138-141: const num = parseInt(value); isNaN(num) ? 0 : num
convertNumber(value) ==
    LET num == parseInt(value)
    IN  IF num.t = "NaN" THEN Num(0) ELSE num

\* parseReport, lines 137-146: the conversions by field
convertValue(field, value) ==
    IF field \in {"saved", "healed"} THEN convertNumber(value)
    ELSE IF field = "activity_date" THEN convertDateFormat(value)
    ELSE Str(value)

\* parseReport, lines 128-149: each value runs from the keyword to the next
\* keyword, or to the end of the message
RECURSIVE extractValues(_, _, _, _)
extractValues(text, matches, i, rep) ==
    IF i > Len(matches) THEN rep
    ELSE LET current == matches[i]
             nextStart == IF i + 1 <= Len(matches) THEN matches[i + 1].matchStart
                          ELSE Len(text)
             value == cleanValue(substring(text, current.valueStart, nextStart))
         IN  extractValues(text, matches, i + 1,
                           Put(rep, current.field, convertValue(current.field, value)))

\* a faulty variant of preachersFallback for comparison: lines 151-154 left out
preachersFallbackMissing(rep) == rep

\* parseReport, lines 151-154: preachers_team falls back to reporter_name,
\* then to 'Not specified'
preachersFallback(rep) ==
    LET team == Get(rep, "preachers_team")
        name == Get(rep, "reporter_name")
    IN  IF ~Truthy(team) \/ (team.t = "string" /\ trim(team.s) = <<>>)
        THEN Put(rep, "preachers_team",
                 IF Truthy(name) THEN name ELSE Str(<<"N", "o", "t", " ", "s", "p", "e", "c", "i", "f", "i", "e", "d">>))
        ELSE rep

parseReport(text) ==
    LET stripped == stripWhatsAppFormatting(text)
        matches == sortMatches(findMatches(stripped))
    IN  preachersFallback(extractValues(stripped, matches, 1, EmptyObject))

(***************************************************************************)
(* Report validator (groupReportParser.js)                                 *)
(***************************************************************************)
requiredFields ==
    << [field |-> "activity_date", name |-> "Date"],
       [field |-> "location", name |-> "Location"],
       [field |-> "activity_type", name |-> "Type of Activity"],
       [field |-> "message_summary", name |-> "Message Summary"] >>

\* a defect string is the text of its template followed by the field name
Defect(text, name) == [text |-> text, name |-> name]

InvalidDateFormat == Defect("Invalid date format. Use DD/MM/YYYY (e.g. 10/02/2026)", "")

\* validateParsedReport, lines 214-220, for one required field
requiredFieldDefects(rep, req) ==
    LET v == Get(rep, req.field)
    IN  IF ~Truthy(v) /\ ~(v.t = "number" /\ v.n = 0)
        THEN <<Defect("Missing required field: ", req.name)>>
        ELSE IF v.t = "string" /\ trim(v.s) = <<>>
        THEN <<Defect("Empty required field: ", req.name)>>
        ELSE <<>>

RECURSIVE requiredDefectsFrom(_, _)
requiredDefectsFrom(rep, k) ==
    IF k > Len(requiredFields) THEN <<>>
    ELSE requiredFieldDefects(rep, requiredFields[k]) \o requiredDefectsFrom(rep, k + 1)

\* a faulty variant of requiredDefects for comparison: the loop stops at the
\* first defect
RECURSIVE requiredDefectsFirstOnly(_, _)
requiredDefectsFirstOnly(rep, k) ==
    IF k > Len(requiredFields) THEN <<>>
    ELSE IF requiredFieldDefects(rep, requiredFields[k]) # <<>>
    THEN requiredFieldDefects(rep, requiredFields[k])
    ELSE requiredDefectsFirstOnly(rep, k + 1)

\* validateParsedReport, lines 214-220: every required field is looked at
requiredDefects(rep, k) == requiredDefectsFrom(rep, k)

\* validateParsedReport, lines 222-225
dateFormatDefects(rep) ==
    LET date == Get(rep, "activity_date")
    IN  IF Truthy(date) /\ ~MatchesCanonicalDate(date.s)
        THEN <<InvalidDateFormat>> ELSE <<>>

\* validateParsedReport, lines 227-234
numberDefects(rep) ==
    (IF Get(rep, "saved").t \notin {"undefined", "number", "NaN"}
     THEN <<Defect("Saved must be a number", "")>> ELSE <<>>)
    \o
    (IF Get(rep, "healed").t \notin {"undefined", "number", "NaN"}
     THEN <<Defect("Healed must be a number", "")>> ELSE <<>>)

NotValidated == [valid |-> FALSE, errors |-> <<>>, threw |-> FALSE, done |-> FALSE]

\* validateParsedReport. A truthy activity_date that is not a string has no
\* match method: the call throws a TypeError.
validateParsedReport(rep) ==
    LET date == Get(rep, "activity_date")
        errors == requiredDefects(rep, 1) \o dateFormatDefects(rep) \o numberDefects(rep)
    IN  IF Truthy(date) /\ date.t # "string"
        THEN [valid |-> FALSE, errors |-> <<>>, threw |-> TRUE, done |-> TRUE]
        ELSE [valid |-> Len(errors) = 0, errors |-> errors, threw |-> FALSE, done |-> TRUE]

(***************************************************************************)
(* The group message handler (part_004) and the database calls it makes    *)
(* (part_003)                                                              *)
(***************************************************************************)
\* the `assemblies` table in the order of getAllAssemblies (by name): an
\* assembly whose whatsapp_group_id is a group the bot sits in, one whose
\* whatsapp_group_id is not set, and a second one with its group
Assemblies ==
    << [id |-> 1, name |-> "Mutare", whatsapp_group_id |-> <<"1", "2", "0", "3", "6", "3", "0", "2", "4", "5", "@", "g", ".", "u", "s">>],
       [id |-> 2, name |-> "Rusape", whatsapp_group_id |-> <<>>],
       [id |-> 3, name |-> "Zvishavane", whatsapp_group_id |-> <<"1", "2", "0", "3", "6", "3", "0", "7", "7", "7", "@", "g", ".", "u", "s">>] >>

\* getAssemblyByGroupJid: the row whose whatsapp_group_id is the JID, found
\* TRUE; found FALSE when there is none (PGRST116)
getAssemblyByGroupJid(groupJid) ==
    LET rows == {k \in DOMAIN Assemblies : Assemblies[k].whatsapp_group_id = groupJid}
    IN  IF Cardinality(rows) = 1
        THEN [found |-> TRUE, assembly |-> Assemblies[CHOOSE k \in rows : TRUE]]
        ELSE [found |-> FALSE, assembly |-> Assemblies[1]]

\* x || null
OrNull(v) == IF Truthy(v) THEN v ELSE Null

\* x ?? y
Coalesce(v, w) == IF v.t \in {"undefined", "null"} THEN w ELSE v

\* createGroupReport: the row inserted into `reports`
createGroupReport(id, assemblyId, reportData, senderPhone) ==
    [id |-> id,
     assembly_id |-> assemblyId,
     activity_date |-> Get(reportData, "activity_date"),
     location |-> Get(reportData, "location"),
     area |-> OrNull(Get(reportData, "area")),
     city |-> OrNull(Get(reportData, "city")),
     activity_type |-> Get(reportData, "activity_type"),
     preachers_team |-> IF Truthy(Get(reportData, "preachers_team"))
                        THEN Get(reportData, "preachers_team")
                        ELSE Get(reportData, "reporter_name"),
     message_summary |-> Get(reportData, "message_summary"),
     response_moments |-> OrNull(Get(reportData, "response_moments")),
     saved |-> Coalesce(Get(reportData, "saved"), Coalesce(Get(reportData, "converts"), Num(0))),
     healed |-> Coalesce(Get(reportData, "healed"),
                         Coalesce(Get(reportData, "sick_prayed_for"), Num(0))),
     reporter_name |-> Get(reportData, "reporter_name"),
     reporter_phone |-> senderPhone,
     source |-> "group_message",
     posted_to_group |-> TRUE,
     wa_message_id |-> Null]

\* err => the bullet character, a space and err
Bullet(defect) == [bullet |-> "bullet", defect |-> defect]

\* handleGroupMessage, lines 42-50: the defects, one bullet line each
errorReply(groupJid, senderJid, errors) ==
    [to |-> groupJid,
     kind |-> "Evangelism Report Error",
     mentions |-> <<senderJid>>,
     lines |-> [i \in DOMAIN errors |-> Bullet(errors[i])],
     reportId |-> 0]

\* handleGroupMessage, lines 60-62, 80-92 and 97-99
plainReply(groupJid, kind, mentions, reportId) ==
    [to |-> groupJid, kind |-> kind, mentions |-> mentions, lines |-> <<>>,
     reportId |-> reportId]

\* what one call of handleGroupMessage leaves behind
Outcome(rep, val, rows, sent) ==
    [report |-> rep, validation |-> val, rows |-> rows, sent |-> sent]

\* a faulty variant of passesValidation for comparison: line 38 left out
savesInvalidReports(val) == TRUE

\* handleGroupMessage, line 38: the report goes on to be saved only when valid
passesValidation(val) == val.valid

\* handleGroupMessage, from line 38 on. m is msg.key with the sender's JID;
\* parsedReport and val are the handler's locals of lines 32 and 36;
\* lookupFails and insertFails say whether the database rejects the assembly
\* lookup and the insert; table is the `reports` table before the call.
handleParsedReport(m, parsedReport, val, table, lookupFails, insertFails) ==
    LET groupJid == m.remoteJid
        senderJid == m.participant
        found == getAssemblyByGroupJid(groupJid)
        senderPhone == Str(split(senderJid, {"@"})[1])
        name == Get(parsedReport, "reporter_name")
        named == IF ~Truthy(name) \/ trim(name.s) = <<>>
                 THEN Put(parsedReport, "reporter_name", senderPhone)
                 ELSE parsedReport
        failure == plainReply(groupJid, "An error occurred while saving the report", <<>>, 0)
    IN  IF val.threw THEN Outcome(parsedReport, val, table, <<failure>>)
        ELSE IF ~passesValidation(val)
        THEN Outcome(parsedReport, val, table, <<errorReply(groupJid, senderJid, val.errors)>>)
        ELSE IF lookupFails THEN Outcome(parsedReport, val, table, <<failure>>)
        ELSE IF ~found.found
        THEN Outcome(parsedReport, val, table,
                     <<plainReply(groupJid, "This group is not configured as a cluster group",
                                  <<>>, 0)>>)
        ELSE IF insertFails THEN Outcome(named, val, table, <<failure>>)
        ELSE Outcome(named, val,
                     Append(table, createGroupReport(Len(table) + 1, found.assembly.id,
                                                     named, senderPhone)),
                     <<plainReply(groupJid, "Evangelism Report Saved!", <<senderJid>>,
                                  Len(table) + 1)>>)

(***************************************************************************)
(* The aggregator (src/src/services/aiReportGenerator.js)                  *)
(*                                                                         *)
(* A Map is a sequence of [key, value] entries in insertion order. An      *)
(* array of strings is a sequence of character sequences.                  *)
(***************************************************************************)
\* the characters of the model in the order of their UTF-16 code units;
\* charCodeAt gives a character's place in it, which compares as the code
\* units do
CodeUnitOrder == <<"\t", "\n", "\r", " ", "!", "\"", "#", "$", "%", "&", "'", "(", ")", "*", "+", ",", "-", ".", "/", "0", "1", "2", "3", "4", "5", "6", "7", "8", "9", ":", ";", "<", "=", ">", "?", "@", "A", "B", "C", "D", "E", "F", "G", "H", "I", "J", "K", "L", "M", "N", "O", "P", "Q", "R", "S", "T", "U", "V", "W", "X", "Y", "Z", "[", "\\", "]", "^", "_", "a", "b", "c", "d", "e", "f", "g", "h", "i", "j", "k", "l", "m", "n", "o", "p", "q", "r", "s", "t", "u", "v", "w", "x", "y", "z", "{", "|", "}", "~">>

charCodeAt(c) == CHOOSE i \in DOMAIN CodeUnitOrder : CodeUnitOrder[i] = c

\* a < b for strings, as the default comparison of Array.prototype.sort:
\* by code units, a proper prefix first
RECURSIVE stringLess(_, _)
stringLess(a, b) ==
    IF b = <<>> THEN FALSE
    ELSE IF a = <<>> THEN TRUE
    ELSE IF a[1] # b[1] THEN charCodeAt(a[1]) < charCodeAt(b[1])
    ELSE stringLess(Tail(a), Tail(b))

\* one step of the sort: item put behind the entries that are not greater
RECURSIVE insertSorted(_, _)
insertSorted(sorted, item) ==
    IF sorted = <<>> THEN <<item>>
    ELSE IF stringLess(item, sorted[1]) THEN <<item>> \o sorted
    ELSE <<sorted[1]>> \o insertSorted(Tail(sorted), item)

RECURSIVE sortFrom(_, _)
sortFrom(items, sorted) ==
    IF items = <<>> THEN sorted
    ELSE sortFrom(Tail(items), insertSorted(sorted, Head(items)))

\* a faulty variant of sort for comparison: the array left as it is
sortLeftOut(items) == items

\* Array.prototype.sort() with no comparison function, on strings
sort(items) == sortFrom(items, <<>>)

\* replace(/[.,;:!]+$/, '') and replace(/[.,;:!/]+$/, ''): the run of
\* characters of the class that ends the string is removed
stripTrailing(s, class) ==
    LET keep == {i \in 1..Len(s) : s[i] \notin class}
    IN  IF keep = {} THEN <<>> ELSE SubSeq(s, 1, Max(keep))

\* the class [.,;:!]
Punctuation == {".", ",", ";", ":", "!"}

\* replace(/\s+/g, ' ')
RECURSIVE collapseWhitespace(_)
collapseWhitespace(s) ==
    IF s = <<>> THEN <<>>
    ELSE IF IsSpace(s[1])
    THEN LET rest == {i \in 1..Len(s) : ~IsSpace(s[i])}
         IN  <<" ">> \o (IF rest = {} THEN <<>>
                         ELSE collapseWhitespace(SubSeq(s, Min(rest), Len(s))))
    ELSE <<s[1]>> \o collapseWhitespace(Tail(s))

\* the string without the white space it starts with
skipSpaces(s) ==
    LET rest == {i \in 1..Len(s) : ~IsSpace(s[i])}
    IN  IF rest = {} THEN <<>> ELSE SubSeq(s, Min(rest), Len(s))

\* replace(/^\/\s*/, '')
removeLeadingSlash(s) ==
    IF s # <<>> /\ s[1] = "/" THEN skipSpaces(Tail(s)) ELSE s

\* normalizePersonName, lines 178-189
normalizePersonName(name) ==
    LET n1 == trim(name)
        n2 == trim(stripTrailing(n1, Punctuation))
        n3 == collapseWhitespace(n2)
    IN  trim(removeLeadingSlash(n3))

\* key.replace(/^title\.?\s+/i, canonical), the \.? only when dotted is
\* TRUE: the title, the optional dot and the white space after it are
\* replaced when the key starts with them
replaceTitle(key, title, dotted, canonical) ==
    LET n == Len(title)
        low == toLowerCase(key)
        dot == IF dotted /\ Len(key) > n /\ key[n + 1] = "." THEN 1 ELSE 0
    IN  IF /\ startsWith(low, title)
           /\ Len(key) > n + dot
           /\ IsSpace(key[n + dot + 1])
        THEN canonical \o skipSpaces(SubSeq(key, n + dot + 1, Len(key)))
        ELSE key

\* a faulty variant of personKey for comparison: titles left as they are
personKeyNoTitles(name) ==
    collapseWhitespace(trim(stripTrailing(trim(toLowerCase(name)), Punctuation \cup {"/"})))

\* personKey, lines 195-208
personKey(name) ==
    LET k1 == trim(toLowerCase(name))
        k2 == trim(stripTrailing(k1, Punctuation \cup {"/"}))
        k3 == collapseWhitespace(k2)
        k4 == replaceTitle(k3, <<"b", "r", "o", "t", "h", "e", "r">>, FALSE, <<"b", "r", " ">>)
        k5 == replaceTitle(k4, <<"s", "i", "s", "t", "e", "r">>, FALSE, <<"s", "r", " ">>)
        k6 == replaceTitle(k5, <<"m", "r", "s">>, TRUE, <<"m", "r", "s", " ">>)
        k7 == replaceTitle(k6, <<"m", "r">>, TRUE, <<"m", "r", " ">>)
    IN  replaceTitle(k7, <<"p", "a", "s", "t", "o", "r">>, FALSE, <<"p", "a", "s", "t", "o", "r", " ">>)

\* JUNK_NAMES, line 211
JUNK_NAMES == <<<<"n", "o", "t", " ", "s", "p", "e", "c", "i", "f", "i", "e", "d">>, <<"u", "n", "k", "n", "o", "w", "n">>, <<"n", "/", "a">>, <<"n", "o", "n", "e">>, <<"-">>, <<>> >>

\* Array.prototype.includes
includes(array, item) == \E i \in DOMAIN array : array[i] = item

\* a faulty variant of isJunk for comparison: the letter case is not folded
isJunkCaseSensitive(cleaned) == includes(JUNK_NAMES, cleaned)

\* deduplicateLabourers, line 222: JUNK_NAMES.includes(cleaned.toLowerCase())
isJunk(cleaned) == includes(JUNK_NAMES, toLowerCase(cleaned))

\* Map.prototype.has
has(seen, key) == \E i \in DOMAIN seen : seen[i].key = key

\* a faulty variant of setIfNew for comparison: seen.set(key, value) without
\* the test, so that the last value of a key stays
setAlways(seen, key, value) ==
    IF has(seen, key)
    THEN [i \in DOMAIN seen |-> IF seen[i].key = key THEN [key |-> key, value |-> value]
                                ELSE seen[i]]
    ELSE Append(seen, [key |-> key, value |-> value])

\* if (!seen.has(key)) seen.set(key, value)
setIfNew(seen, key, value) ==
    IF has(seen, key) THEN seen ELSE Append(seen, [key |-> key, value |-> value])

\* Array.from(seen.values())
values(seen) == [i \in DOMAIN seen |-> seen[i].value]

\* deduplicateLabourers, lines 219-230: the forEach over the items
RECURSIVE seenLabourers(_, _)
seenLabourers(items, seen) ==
    IF items = <<>> THEN seen
    ELSE LET cleaned == normalizePersonName(Head(items))
         IN  IF isJunk(cleaned) \/ Len(cleaned) < 3
             THEN seenLabourers(Tail(items), seen)
             ELSE seenLabourers(Tail(items), setIfNew(seen, personKey(cleaned), cleaned))

\* deduplicateLabourers, lines 217-232
deduplicateLabourers(items) == sort(values(seenLabourers(items, <<>>)))

\* replace(/^\((.+)\)$/, '$1'): one layer of parentheses that wrap the whole
\* string (the . matches no line break)
unwrapParentheses(s) ==
    IF /\ Len(s) >= 3 /\ s[1] = "(" /\ s[Len(s)] = ")"
       /\ \A i \in 2..(Len(s) - 1) : s[i] \notin {"\n", "\r"}
    THEN SubSeq(s, 2, Len(s) - 1)
    ELSE s

\* replace(/\s*\/\s*/g, '/')
RECURSIVE tightenSlashes(_)
tightenSlashes(s) ==
    IF s = <<>> THEN <<>>
    ELSE LET rest == skipSpaces(s)
         IN  IF rest # <<>> /\ rest[1] = "/"
             THEN <<"/">> \o tightenSlashes(skipSpaces(Tail(rest)))
             ELSE <<s[1]>> \o tightenSlashes(Tail(s))

\* locationKey, lines 241-252
locationKey(loc) ==
    LET k1 == trim(toLowerCase(loc))
        k2 == trim(stripTrailing(k1, Punctuation))
        k3 == unwrapParentheses(k2)
        k4 == tightenSlashes(k3)
    IN  collapseWhitespace(k4)

\* a faulty variant of cleanLocation for comparison: the display value is
\* lowercased like the key
cleanLocationLowered(item) == toLowerCase(trim(stripTrailing(trim(item), Punctuation)))

\* deduplicateLocations, line 261
cleanLocation(item) == trim(stripTrailing(trim(item), Punctuation))

\* deduplicateLocations, lines 260-268: the forEach over the items
RECURSIVE seenLocations(_, _)
seenLocations(items, seen) ==
    IF items = <<>> THEN seen
    ELSE LET cleaned == cleanLocation(Head(items))
         IN  IF Len(cleaned) < 2
             THEN seenLocations(Tail(items), seen)
             ELSE seenLocations(Tail(items), setIfNew(seen, locationKey(cleaned), cleaned))

\* deduplicateLocations, lines 258-270
deduplicateLocations(items) == sort(values(seenLocations(items, <<>>)))

\* deduplicateList, lines 162-167: the forEach over the items
RECURSIVE seenItems(_, _)
seenItems(items, seen) ==
    IF items = <<>> THEN seen
    ELSE seenItems(Tail(items),
                   setIfNew(seen, trim(toLowerCase(Head(items))), trim(Head(items))))

\* deduplicateList, lines 160-169
deduplicateList(items) == sort(values(seenItems(items, <<>>)))
(***************************************************************************)
(* generateAssemblyReport (src/src/services/aiReportGenerator.js)          *)
(*                                                                         *)
(* A fetched record is [location, preachers_team, activity_type,           *)
(* message_summary, saved, healed] of JavaScript values. The texts of the  *)
(* narrative are records of what they are built from.                      *)
(***************************************************************************)
\* the length of what /\s+and\s+/i matches at the start of s, 0 when it
\* does not match there
matchAnd(s) ==
    LET rest == skipSpaces(s)
        run1 == Len(s) - Len(rest)
        after == SubSeq(rest, 4, Len(rest))
        run2 == Len(after) - Len(skipSpaces(after))
    IN  IF run1 > 0 /\ startsWith(toLowerCase(rest), <<"a", "n", "d">>) /\ run2 > 0
        THEN run1 + 3 + run2
        ELSE 0

\* split(/,|\s+and\s+/i): piece is what has been read of the current piece
RECURSIVE splitPieces(_, _)
splitPieces(s, piece) ==
    IF s = <<>> THEN <<piece>>
    ELSE IF s[1] = "," THEN <<piece>> \o splitPieces(Tail(s), <<>>)
    ELSE IF matchAnd(s) > 0
    THEN <<piece>> \o splitPieces(SubSeq(s, matchAnd(s) + 1, Len(s)), <<>>)
    ELSE splitPieces(Tail(s), Append(piece, s[1]))

\* generateAssemblyReport, lines 76-78: split(...).map(n => n.trim())
splitTeam(team) ==
    LET pieces == splitPieces(team, <<>>)
    IN  [i \in DOMAIN pieces |-> Str(trim(pieces[i]))]

\* a faulty variant of filterBoolean for comparison: nothing is left out
filterNothing(array) == array

\* Array.prototype.filter(Boolean)
filterBoolean(array) == SelectSeq(array, Truthy)

\* Array.prototype.flatMap over the records, lines 73-79
RECURSIVE flatMapTeams(_)
flatMapTeams(reports) ==
    IF reports = <<>> THEN <<>>
    ELSE (IF ~Truthy(Head(reports).preachers_team) THEN <<>>
          ELSE splitTeam(Head(reports).preachers_team.s))
         \o flatMapTeams(Tail(reports))

\* reports.map(r => r[field])
mapField(reports, field) == [i \in DOMAIN reports |-> reports[i][field]]

\* the strings of an array of string values
strings(array) == [i \in DOMAIN array |-> array[i].s]

\* a faulty variant of reduceSum for comparison: the count of the last
\* record instead of the sum
reduceLast(reports, field) ==
    IF reports = <<>> \/ ~Truthy(reports[Len(reports)][field]) THEN 0
    ELSE reports[Len(reports)][field].n

\* reports.reduce((sum, r) => sum + (r[field] || 0), 0), lines 91-92
RECURSIVE reduceSum(_, _)
reduceSum(reports, field) ==
    IF reports = <<>> THEN 0
    ELSE LET r == reports[Len(reports)]
         IN  reduceSum(SubSeq(reports, 1, Len(reports) - 1), field)
                + (IF Truthy(r[field]) THEN r[field].n ELSE 0)

\* Array.prototype.join(', ')
RECURSIVE join(_)
join(array) ==
    IF array = <<>> THEN <<>>
    ELSE IF Len(array) = 1 THEN array[1]
    ELSE array[1] \o <<",", " ">> \o join(Tail(array))

\* a text of the report that has not been set
NoText == [kind |-> "unset", text |-> "", period |-> "", assemblyName |-> "", places |-> <<>>]

\* a list of bullets of the report that has not been set
NoBullets == [set |-> FALSE, bullets |-> <<>>]

\* generateFallbackNarrative, lines 447-469: the fixed wording around the
\* period, the assembly's name and the joined locations
generateFallbackNarrative(data) ==
    [kind |-> "fallback narrative", text |-> "", period |-> data.period,
     assemblyName |-> data.assemblyName,
     places |-> IF join(data.locations) # <<>> THEN join(data.locations)
                ELSE <<"v", "a", "r", "i", "o", "u", "s", " ", "l", "o", "c", "a", "t", "i", "o", "n", "s">>]

\* generateFallbackMessageEmphasis, lines 474-482
generateFallbackMessageEmphasis ==
    [set |-> TRUE,
     bullets |-> << "Repentance and remission of sins",
                    "Holiness as evidence of salvation",
                    "Christ as the only source of freedom",
                    "A call beyond religious routine",
                    "Preparation for eternity" >>]

\* generateFallbackConclusion, lines 487-492
generateFallbackConclusion(data) ==
    [kind |-> "fallback conclusion", text |-> "", period |-> data.period,
     assemblyName |-> data.assemblyName, places |-> <<>>]

\* a text taken from the collaborator's response
Written(text) ==
    [kind |-> "written", text |-> text, period |-> "", assemblyName |-> "", places |-> <<>>]

\* parseNarrativeResponse, lines 404-442: the response is given by the
\* sections the three patterns find in it; a section that is not found keeps
\* its initial value ('' or [])
parseNarrativeResponse(response) ==
    [narrative |-> Written(response.narrative),
     messageEmphasis |-> [set |-> TRUE, bullets |-> response.emphasis],
     conclusion |-> Written(response.conclusion)]

\* generateNarrative, lines 275-299, as the collaborator ends: the request
\* throws, or completion.choices[0].message.content is null and
\* parseNarrativeResponse throws on it, or the content is parsed
generateNarrative(collab) ==
    IF collab.fails \/ ~collab.hasContent
    THEN [threw |-> TRUE, sections |-> parseNarrativeResponse(collab.response)]
    ELSE [threw |-> FALSE, sections |-> parseNarrativeResponse(collab.response)]

\* a faulty variant of withNarrative for comparison: no try/catch around the
\* collaborator
withNarrativeUncaught(data, collab) ==
    IF collab.apiKey /\ generateNarrative(collab).threw
    THEN [data EXCEPT !.threw = TRUE]
    ELSE [data EXCEPT !.narrative = generateFallbackNarrative(data),
                      !.messageEmphasis = generateFallbackMessageEmphasis,
                      !.conclusion = generateFallbackConclusion(data)]

\* generateAssemblyReport, lines 116-134
withNarrative(data, collab) ==
    IF collab.apiKey /\ ~generateNarrative(collab).threw
    THEN [data EXCEPT !.narrative = generateNarrative(collab).sections.narrative,
                      !.messageEmphasis = generateNarrative(collab).sections.messageEmphasis,
                      !.conclusion = generateNarrative(collab).sections.conclusion]
    ELSE [data EXCEPT !.narrative = generateFallbackNarrative(data),
                      !.messageEmphasis = generateFallbackMessageEmphasis,
                      !.conclusion = generateFallbackConclusion(data)]

\* the keys of ZIMBABWE_COORDINATES (formValidator.js lines 910-934)
ZIMBABWE_COORDINATES ==
    << <<"M", "u", "t", "a", "r", "e">>, <<"M", "u", "t", "a", "r", "e", " ", "(", "C", "h", "i", "k", "a", "b", "v", "u", "m", "b", "w", "a", ")">>, <<"D", "a", "n", "g", "a", "m", "v", "u", "r", "a">>, <<"M", "u", "t", "a", "r", "e", " ", "C", "B", "D">>, <<"C", "h", "i", "k", "a", "n", "g", "a">>,
       <<"S", "a", "k", "u", "b", "v", "a">>, <<"H", "o", "b", "h", "o", "u", "s", "e">>, <<"P", "e", "n", "h", "a", "l", "o", "n", "g", "a">>, <<"N", "y", "a", "n", "g", "a", " ", "T", "e", "r", "m", "i", "n", "u", "s">>, <<"O", "d", "z", "i">>, <<"M", "a", "r", "a", "n", "g", "e">>,
       <<"B", "o", "c", "h", "a">>, <<"C", "h", "i", "t", "e", "n", "d", "e", "r", "a", "n", "o", " ", "(", "N", "y", "a", "z", "u", "r", "a", ")">>, <<"K", "a", "t", "s", "u", "r", "o", " ", "M", "a", "r", "k", "e", "t">>, <<"M", "u", "t", "a", "n", "d", "a">>, <<"R", "u", "s", "a", "p", "e">>,
       <<"M", "a", "r", "o", "n", "d", "e", "r", "a">>, <<"B", "u", "l", "a", "w", "a", "y", "o">>, <<"H", "a", "r", "a", "r", "e">>, <<"G", "w", "e", "r", "u">>, <<"K", "w", "e", "k", "w", "e">>, <<"K", "a", "d", "o", "m", "a">>,
       <<"C", "h", "i", "n", "h", "o", "y", "i">> >>

\* generateLocationPlot finds coordinates for the location: by its exact
\* name, or by its name in small letters
hasCoordinates(loc) ==
    \E k \in DOMAIN ZIMBABWE_COORDINATES :
        toLowerCase(ZIMBABWE_COORDINATES[k]) = toLowerCase(loc)

\* what a call of generateLocationPlot gives its caller
Plot(threw, path) == [threw |-> threw, path |-> path]

\* generateLocationPlot: its whole body is in a try whose catch returns null,
\* so it never throws. It returns null when no location has coordinates and
\* when the drawing fails, and the output path otherwise.
generateLocationPlot(locations, drawFails) ==
    LET points == SelectSeq(locations, hasCoordinates)
    IN  IF Len(points) = 0 THEN Plot(FALSE, "null")
        ELSE IF drawFails THEN Plot(FALSE, "null")
        ELSE Plot(FALSE, "map path")

\* generateAssemblyReport, lines 136-149: with more than one location
\* generateLocationPlot is awaited, its result is dropped and mapImagePath
\* is the path; it is null when the call throws and when there is at most
\* one location
withMap(data, plotFails) ==
    [data EXCEPT !.mapImagePath =
        IF Len(data.locations) > 1
        THEN IF generateLocationPlot(data.locations, plotFails).threw THEN "null"
             ELSE "map path"
        ELSE "null"]

\* a response in which none of the three patterns finds its section
EmptyResponse == [narrative |-> "", emphasis |-> <<>>, conclusion |-> ""]

\* no collaborator at work
NoCollaborator ==
    [apiKey |-> FALSE, fails |-> FALSE, hasContent |-> FALSE, response |-> EmptyResponse]

\* the lists have not been deduplicated once more
NotRefed == [done |-> FALSE, locations |-> <<>>, labourers |-> <<>>]

\* no report generated yet
NotGenerated ==
    [done |-> FALSE, threw |-> FALSE, assemblyName |-> "", period |-> "",
     totalOutreaches |-> 0, totalSaved |-> 0, totalHealed |-> 0,
     locations |-> <<>>, labourers |-> <<>>, activityTypes |-> <<>>,
     messageSummaries |-> <<>>, narrative |-> NoText, messageEmphasis |-> NoBullets,
     conclusion |-> NoText, mapImagePath |-> "null"]

\* what the caller gets when generateAssemblyReport throws
Thrown == [NotGenerated EXCEPT !.done = TRUE, !.threw = TRUE]

\* generateAssemblyReport, lines 61-152, on the records getReportsForAssembly
\* returned. String methods called on a value that is no string throw.
generateAssemblyReport(assembly, period, reports, collab, plotFails) ==
    LET locationItems == filterBoolean(mapField(reports, "location"))
        teamItems == filterBoolean(flatMapTeams(reports))
        typeItems == filterBoolean(mapField(reports, "activity_type"))
        items == locationItems \o teamItems \o typeItems
    IN  IF \E i \in DOMAIN items : items[i].t # "string" THEN Thrown
        ELSE LET data ==
                   [NotGenerated EXCEPT
                       !.done = TRUE,
                       !.assemblyName = assembly.name,
                       !.period = period,
                       !.totalOutreaches = Len(reports),
                       !.totalSaved = reduceSum(reports, "saved"),
                       !.totalHealed = reduceSum(reports, "healed"),
                       !.locations = deduplicateLocations(strings(locationItems)),
                       !.labourers = deduplicateLabourers(strings(teamItems)),
                       !.activityTypes = deduplicateList(strings(typeItems)),
                       !.messageSummaries =
                           strings(filterBoolean(mapField(reports, "message_summary")))]
             IN  withMap(withNarrative(data, collab), plotFails)
(***************************************************************************)
(* The form's reports in the database (part_003) and their posting to the  *)
(* assembly's group (groupPoster.js)                                       *)
(***************************************************************************)
\* createReport: the row inserted into `reports`; posted_to_group and
\* wa_message_id are not given and take the column's default
createReport(id, reportData) ==
    [id |-> id,
     assembly_id |-> Get(reportData, "assembly_id").n,
     activity_date |-> Get(reportData, "activity_date"),
     location |-> Get(reportData, "location"),
     area |-> OrNull(Get(reportData, "area")),
     city |-> OrNull(Get(reportData, "city")),
     activity_type |-> Get(reportData, "activity_type"),
     preachers_team |-> Get(reportData, "preachers_team"),
     message_summary |-> Get(reportData, "message_summary"),
     response_moments |-> OrNull(Get(reportData, "response_moments")),
     saved |-> Coalesce(Get(reportData, "saved"), Coalesce(Get(reportData, "converts"), Num(0))),
     healed |-> Coalesce(Get(reportData, "healed"),
                         Coalesce(Get(reportData, "sick_prayed_for"), Num(0))),
     reporter_name |-> Get(reportData, "reporter_name"),
     reporter_phone |-> Get(reportData, "reporter_phone"),
     source |-> IF Truthy(Get(reportData, "source")) THEN Get(reportData, "source").s
                ELSE "form",
     posted_to_group |-> FALSE,
     wa_message_id |-> Null]

\* the report read by getReport before anything was read
NoReport ==
    [id |-> 0, posted_to_group |-> FALSE, assembly_name |-> "", whatsapp_group_id |-> <<>>]

\* getReport: the row with the id, with the name and the group of its
\* assembly; threw TRUE when .single() finds no such row
getReport(table, id) ==
    LET rows == {k \in DOMAIN table : table[k].id = id}
    IN  IF Cardinality(rows) # 1 THEN [threw |-> TRUE, report |-> NoReport]
        ELSE LET row == table[CHOOSE k \in rows : TRUE]
                 assembly == Assemblies[CHOOSE a \in DOMAIN Assemblies :
                                            Assemblies[a].id = row.assembly_id]
             IN  [threw |-> FALSE,
                  report |-> [id |-> row.id,
                              posted_to_group |-> row.posted_to_group,
                              assembly_name |-> assembly.name,
                              whatsapp_group_id |-> assembly.whatsapp_group_id]]

\* a faulty variant of markReportAsPosted for comparison: the update is lost
markNothing(table, reportId) == table

\* markReportAsPosted: posted_to_group of the row becomes true
markReportAsPosted(table, reportId) ==
    [k \in DOMAIN table |->
        IF table[k].id = reportId THEN [table[k] EXCEPT !.posted_to_group = TRUE]
        ELSE table[k]]

\* formatReportMessage, sent to the group by sock.sendMessage
formatReportMessage(groupJid, rep) ==
    plainReply(groupJid, "EVANGELISM REPORT", <<>>, rep.id)

\* one call of postReportToGroup: the await it stands at, its argument and
\* the report it read
Call(at, reportId, rep) == [at |-> at, reportId |-> reportId, report |-> rep]

\* what one step of a call leaves behind
Stepped(call, rows, sent) == [call |-> call, rows |-> rows, sent |-> sent]

\* postReportToGroup from one await to the next. fails says whether the
\* awaited call throws. "timer" is the retry waiting for its 5 seconds; the
\* step taken there is the timer firing and the retry's getReport.
postStep(c, table, fails) ==
    LET got == getReport(table, c.reportId)
        caught == Stepped(Call("timer", c.reportId, c.report), table, <<>>)
        gaveUp == Stepped(Call("done", c.reportId, c.report), table, <<>>)
        returned == Stepped(Call("done", c.reportId, c.report), table, <<>>)
    IN  CASE c.at = "getReport" ->
               IF fails \/ got.threw THEN caught
               ELSE IF got.report.posted_to_group THEN returned
               ELSE IF got.report.whatsapp_group_id = <<>> THEN returned
               ELSE Stepped(Call("sendMessage", c.reportId, got.report), table, <<>>)
          [] c.at = "sendMessage" ->
               IF fails THEN caught
               ELSE Stepped(Call("markReportAsPosted", c.reportId, c.report), table,
                            <<formatReportMessage(c.report.whatsapp_group_id, c.report)>>)
          [] c.at = "markReportAsPosted" ->
               IF fails THEN caught
               ELSE Stepped(Call("done", c.reportId, c.report),
                            markReportAsPosted(table, c.reportId), <<>>)
          [] c.at = "timer" ->
               IF fails \/ got.threw THEN gaveUp
               ELSE IF ~got.report.posted_to_group
               THEN Stepped(Call("retry sendMessage", c.reportId, got.report), table, <<>>)
               ELSE returned
          [] c.at = "retry sendMessage" ->
               IF fails \/ c.report.whatsapp_group_id = <<>> THEN gaveUp
               ELSE Stepped(Call("retry markReportAsPosted", c.reportId, c.report), table,
                            <<formatReportMessage(c.report.whatsapp_group_id, c.report)>>)
          [] c.at = "retry markReportAsPosted" ->
               IF fails THEN gaveUp
               ELSE Stepped(Call("done", c.reportId, c.report),
                            markReportAsPosted(table, c.reportId), <<>>)
          [] OTHER -> Stepped(c, table, <<>>)

\* the awaits at which a call of postReportToGroup returns to its caller
Returned == {"done", "timer"}

\* a call of postReportToGroup from its first await until it returns, when
\* none of its awaits throws
RECURSIVE awaitPost(_, _, _)
awaitPost(c, table, sent) ==
    IF c.at \in Returned THEN Stepped(c, table, sent)
    ELSE LET s == postStep(c, table, FALSE)
         IN  awaitPost(s.call, s.rows, sent \o s.sent)

\* await postReportToGroup(sock, reportId)
postReportToGroup(table, reportId) ==
    awaitPost(Call("getReport", reportId, NoReport), table, <<>>)

(***************************************************************************)
(* The report form (formValidator.js 1-300, 320-811)                       *)
(***************************************************************************)
\* Form steps
STEPS ==
    [ASSEMBLY |-> 0, DATE |-> 1, LOCATION |-> 2, ACTIVITY_TYPE |-> 3,
     CUSTOM_ACTIVITY_TYPE |-> 4, PREACHERS_TEAM |-> 5, MESSAGE_SUMMARY |-> 6,
     RESPONSE_MOMENTS |-> 7, CONVERTS |-> 8, SICK_PRAYED_FOR |-> 9,
     REPORTER_NAME |-> 10, CONFIRMATION |-> 11]

\* config.activityTypes
activityTypes ==
    << <<"S", "t", "r", "e", "e", "t", " ", "E", "v", "a", "n", "g", "e", "l", "i", "s", "m">>, <<"D", "o", "o", "r", "-", "t", "o", "-", "D", "o", "o", "r">>, <<"C", "h", "u", "r", "c", "h", " ", "E", "v", "e", "n", "t">>,
       <<"C", "o", "m", "m", "u", "n", "i", "t", "y", " ", "O", "u", "t", "r", "e", "a", "c", "h">>, <<"S", "c", "h", "o", "o", "l", " ", "V", "i", "s", "i", "t">>, <<"H", "o", "s", "p", "i", "t", "a", "l", " ", "V", "i", "s", "i", "t">>,
       <<"P", "r", "i", "s", "o", "n", " ", "M", "i", "n", "i", "s", "t", "r", "y">>, <<"T", "a", "x", "i", " ", "E", "v", "a", "n", "g", "e", "l", "i", "s", "m">>, <<"O", "t", "h", "e", "r">> >>

\* config.wakePhrase when WAKE_PHRASE is not set
wakePhrase == <<"!", "e", "v", "a", "n", "g", "e", "l", "i", "s", "m">>

\* { valid: true, value } and { valid: false, error }
Valid(value) == [valid |-> TRUE, value |-> value, error |-> ""]
Invalid(error) == [valid |-> FALSE, value |-> Undefined, error |-> error]

\* validateAssemblySelection and validateActivityType
validateSelection(input, maxOptions) ==
    LET num == parseInt(trim(input))
    IN  IF num.t = "NaN" THEN Invalid("Please enter a valid number.")
        ELSE IF num.n < 1 \/ num.n > maxOptions
        THEN Invalid("Please enter a number between 1 and maxOptions.")
        ELSE Valid(num)

validateAssemblySelection(input, maxOptions) == validateSelection(input, maxOptions)

validateActivityType(input, maxOptions) == validateSelection(input, maxOptions)

\* validateName, validateLocation, validateTeam and validateMessageSummary:
\* the trimmed input when its length is within [least, most]
validateLength(input, least, most, field) ==
    LET trimmed == trim(input)
    IN  IF Len(trimmed) < least THEN Invalid(field \o " is too short.")
        ELSE IF Len(trimmed) > most THEN Invalid(field \o " is too long.")
        ELSE Valid(Str(trimmed))

validateName(input) == validateLength(input, 2, 100, "Name")

validateLocation(input) == validateLength(input, 2, 200, "Location")

validateTeam(input) == validateLength(input, 2, 200, "Preachers team")

validateMessageSummary(input) == validateLength(input, 10, 1000, "Message summary")

validateNumber(input, fieldName) ==
    LET num == parseInt(trim(input))
    IN  IF num.t = "NaN" THEN Invalid(fieldName \o " must be a valid number.")
        ELSE IF num.n < 0 THEN Invalid(fieldName \o " cannot be negative.")
        ELSE IF num.n > 1000000 THEN Invalid(fieldName \o " seems too large. Please verify.")
        ELSE Valid(num)

validateResponseMoments(input) ==
    LET response == toLowerCase(trim(input))
    IN  IF response = <<"n", "o", "n", "e">> \/ response = <<"s", "k", "i", "p">> \/ response = <<>> THEN Valid(Null)
        ELSE IF Len(trim(input)) > 1000
        THEN Invalid("Response/moments are too long (max 1000 characters).")
        ELSE Valid(Str(trim(input)))

validateConfirmation(input) ==
    LET response == toLowerCase(trim(input))
    IN  IF response = <<"y", "e", "s">> \/ response = <<"y">> THEN Valid(True)
        ELSE IF response = <<"n", "o">> \/ response = <<"n">> THEN Valid(False)
        ELSE Invalid("Please reply with \"yes\" or \"no\".")

\* getUserFormState: undefined when the user has no row
NoFormState == [active |-> FALSE, current_form_step |-> -1, form_data |-> EmptyObject]

\* saveUserFormState: the user's row after the upsert
saveUserFormState(step, formData) ==
    [active |-> TRUE, current_form_step |-> step, form_data |-> formData]

\* hasActiveForm
hasActiveForm(userState) == userState.active

\* sock.sendMessage(userJid, { text })
textTo(userJid, words) == plainReply(userJid, words, <<>>, 0)

\* what a step of the form does: it saves the state with a new step, clears
\* the state, or touches nothing; and it sends messages
Untouched(sent) == [op |-> "keep", step |-> -1, data |-> EmptyObject, sent |-> sent]
Saved(step, data, sent) == [op |-> "save", step |-> step, data |-> data, sent |-> sent]
Cleared(sent) == [op |-> "clear", step |-> -1, data |-> EmptyObject, sent |-> sent]

\* a faulty variant of rejected for comparison: the answer is stored although
\* it failed the validation, and the form moves on
rejectedButStored(userJid, result, step, field, formData) ==
    Saved(step + 1, Put(formData, field, result.value), <<textTo(userJid, result.error)>>)

\* `if (!result.valid) { await sock.sendMessage(...error); return; }`
rejected(userJid, result, step, field, formData) ==
    Untouched(<<textTo(userJid, result.error)>>)

\* startReportForm; sendAssemblyPrompt clears the state again when there is
\* no assembly to choose from
startReportForm(userJid) ==
    LET formData == Put(EmptyObject, "reporter_phone", Str(userJid))
    IN  IF Len(Assemblies) = 0
        THEN Cleared(<<textTo(userJid, "No assemblies configured.")>>)
        ELSE Saved(STEPS.ASSEMBLY, formData, <<textTo(userJid, "Select your assembly:")>>)

processAssemblyStep(userJid, message, formData) ==
    LET result == validateAssemblySelection(message, Len(Assemblies))
    IN  IF ~result.valid
        THEN rejected(userJid, result, STEPS.ASSEMBLY, "assembly_id", formData)
        ELSE LET selectedAssembly == Assemblies[result.value.n]
             IN  Saved(STEPS.DATE,
                       Put(Put(formData, "assembly_id", Num(selectedAssembly.id)),
                           "assembly_name", Str(selectedAssembly.name)),
                       <<textTo(userJid, "When did this evangelism activity take place?")>>)

\* result is what validateDate(message) returned (`validation` in the source)
processDateStep(userJid, result, formData) ==
    IF ~result.valid
    THEN Untouched(<<textTo(userJid, result.error)>>)
    ELSE Saved(STEPS.LOCATION, Put(formData, "activity_date", Str(result.value)),
               <<textTo(userJid, "Where did this activity take place?")>>)

processLocationStep(userJid, message, formData) ==
    LET result == validateLocation(message)
    IN  IF ~result.valid
        THEN rejected(userJid, result, STEPS.LOCATION, "location", formData)
        ELSE Saved(STEPS.ACTIVITY_TYPE, Put(formData, "location", result.value),
                   <<textTo(userJid, "What type of evangelism activity was this?")>>)

\* a faulty variant of isOther for comparison: 'Other' is a type like the rest
isNeverOther(selectedType) == FALSE

\* selectedType === 'Other'
isOther(selectedType) == selectedType = <<"O", "t", "h", "e", "r">>

processActivityTypeStep(userJid, message, formData) ==
    LET result == validateActivityType(message, Len(activityTypes))
    IN  IF ~result.valid
        THEN rejected(userJid, result, STEPS.ACTIVITY_TYPE, "activity_type", formData)
        ELSE LET selectedType == activityTypes[result.value.n]
             IN  IF isOther(selectedType)
                 THEN Saved(STEPS.CUSTOM_ACTIVITY_TYPE, Put(formData, "selected_other", True),
                            <<textTo(userJid, "Please specify the type of evangelism activity:")>>)
                 ELSE Saved(STEPS.PREACHERS_TEAM, Put(formData, "activity_type", Str(selectedType)),
                            <<textTo(userJid, "Who were the preachers/team members involved?")>>)

processCustomActivityTypeStep(userJid, message, formData) ==
    LET customType == trim(message)
    IN  IF Len(customType) < 3
        THEN Untouched(<<textTo(userJid, "Activity type must be at least 3 characters long.")>>)
        ELSE IF Len(customType) > 100
        THEN Untouched(<<textTo(userJid, "Activity type is too long (max 100 characters).")>>)
        ELSE Saved(STEPS.PREACHERS_TEAM,
                   Delete(Put(formData, "activity_type", Str(customType)), "selected_other"),
                   <<textTo(userJid, "Who were the preachers/team members involved?")>>)

processPreachersTeamStep(userJid, message, formData) ==
    LET result == validateTeam(message)
    IN  IF ~result.valid
        THEN rejected(userJid, result, STEPS.PREACHERS_TEAM, "preachers_team", formData)
        ELSE Saved(STEPS.MESSAGE_SUMMARY, Put(formData, "preachers_team", result.value),
                   <<textTo(userJid, "What was the message/sermon summary?")>>)

processMessageSummaryStep(userJid, message, formData) ==
    LET result == validateMessageSummary(message)
    IN  IF ~result.valid
        THEN rejected(userJid, result, STEPS.MESSAGE_SUMMARY, "message_summary", formData)
        ELSE Saved(STEPS.RESPONSE_MOMENTS, Put(formData, "message_summary", result.value),
                   <<textTo(userJid, "Any notable responses or moments?")>>)

processResponseMomentsStep(userJid, message, formData) ==
    LET result == validateResponseMoments(message)
    IN  IF ~result.valid
        THEN rejected(userJid, result, STEPS.RESPONSE_MOMENTS, "response_moments", formData)
        ELSE Saved(STEPS.CONVERTS, Put(formData, "response_moments", result.value),
                   <<textTo(userJid, "How many people gave their lives to Christ?")>>)

processConvertsStep(userJid, message, formData) ==
    LET result == validateNumber(message, "Converts")
    IN  IF ~result.valid
        THEN rejected(userJid, result, STEPS.CONVERTS, "converts", formData)
        ELSE Saved(STEPS.SICK_PRAYED_FOR, Put(formData, "converts", result.value),
                   <<textTo(userJid, "How many sick people were prayed for?")>>)

processSickPrayedForStep(userJid, message, formData) ==
    LET result == validateNumber(message, "Sick prayed for")
    IN  IF ~result.valid
        THEN rejected(userJid, result, STEPS.SICK_PRAYED_FOR, "sick_prayed_for", formData)
        ELSE Saved(STEPS.REPORTER_NAME, Put(formData, "sick_prayed_for", result.value),
                   <<textTo(userJid, "What is your name?")>>)

processReporterNameStep(userJid, message, formData) ==
    LET result == validateName(message)
    IN  IF ~result.valid
        THEN rejected(userJid, result, STEPS.REPORTER_NAME, "reporter_name", formData)
        ELSE Saved(STEPS.CONFIRMATION, Put(formData, "reporter_name", result.value),
                   <<textTo(userJid, "REPORT SUMMARY")>>)

\* what processConfirmationStep leaves behind: the form step's outcome and
\* the `reports` table
Confirmed(out, rows) == [out |-> out, rows |-> rows]

\* a faulty variant of createOnce for comparison: the report is inserted twice
createTwice(table, formData) ==
    Append(Append(table, createReport(Len(table) + 1, formData)),
           createReport(Len(table) + 2, formData))

\* `const result = await createReport(formData)`: the table with the new row
createOnce(table, formData) == Append(table, createReport(Len(table) + 1, formData))

\* processConfirmationStep. saveFails says whether createReport throws.
processConfirmationStep(userJid, message, formData, table, saveFails) ==
    LET result == validateConfirmation(message)
    IN  IF ~result.valid
        THEN Confirmed(Untouched(<<textTo(userJid, result.error)>>), table)
        ELSE IF ~Truthy(result.value)
        THEN Confirmed(Cleared(<<textTo(userJid, "Report cancelled.")>>), table)
        ELSE IF saveFails
        THEN Confirmed(Cleared(<<textTo(userJid, "Error saving report.")>>), table)
        ELSE LET posted == postReportToGroup(createOnce(table, formData), Len(table) + 1)
             IN  Confirmed(Cleared(<<textTo(userJid, "Report submitted successfully!")>>
                                   \o posted.sent),
                           posted.rows)

\* a faulty variant of isCancel for comparison: only the word as typed here
isCancelExactly(message) == message = <<"c", "a", "n", "c", "e", "l">>

\* message.trim().toLowerCase() === 'cancel'
isCancel(message) == toLowerCase(trim(message)) = <<"c", "a", "n", "c", "e", "l">>

\* what processFormResponse leaves behind
Answered(state, rows, sent) == [state |-> state, rows |-> rows, sent |-> sent]

\* the user's row after a step of the form
stateAfter(userState, out) ==
    CASE out.op = "save" -> saveUserFormState(out.step, out.data)
      [] out.op = "clear" -> NoFormState
      [] OTHER -> userState

\* processFormResponse. userState is what getUserFormState returns; date is
\* what validateDate returns for the message.
processFormResponse(userJid, message, userState, table, date, saveFails) ==
    LET currentStep == userState.current_form_step
        formData == userState.form_data
        step(out) == Answered(stateAfter(userState, out), table, out.sent)
    IN  IF isCancel(message)
        THEN Answered(NoFormState, table, <<textTo(userJid, "Form cancelled.")>>)
        ELSE IF ~userState.active THEN Answered(userState, table, <<>>)
        ELSE CASE currentStep = STEPS.ASSEMBLY ->
                    step(processAssemblyStep(userJid, message, formData))
               [] currentStep = STEPS.DATE ->
                    step(processDateStep(userJid, date, formData))
               [] currentStep = STEPS.LOCATION ->
                    step(processLocationStep(userJid, message, formData))
               [] currentStep = STEPS.ACTIVITY_TYPE ->
                    step(processActivityTypeStep(userJid, message, formData))
               [] currentStep = STEPS.CUSTOM_ACTIVITY_TYPE ->
                    step(processCustomActivityTypeStep(userJid, message, formData))
               [] currentStep = STEPS.PREACHERS_TEAM ->
                    step(processPreachersTeamStep(userJid, message, formData))
               [] currentStep = STEPS.MESSAGE_SUMMARY ->
                    step(processMessageSummaryStep(userJid, message, formData))
               [] currentStep = STEPS.RESPONSE_MOMENTS ->
                    step(processResponseMomentsStep(userJid, message, formData))
               [] currentStep = STEPS.CONVERTS ->
                    step(processConvertsStep(userJid, message, formData))
               [] currentStep = STEPS.SICK_PRAYED_FOR ->
                    step(processSickPrayedForStep(userJid, message, formData))
               [] currentStep = STEPS.REPORTER_NAME ->
                    step(processReporterNameStep(userJid, message, formData))
               [] currentStep = STEPS.CONFIRMATION ->
                    LET done == processConfirmationStep(userJid, message, formData,
                                                        table, saveFails)
                    IN  Answered(stateAfter(userState, done.out), done.rows, done.out.sent)
               [] OTHER -> Answered(userState, table, <<>>)

(***************************************************************************)
(* Message routing and the test-report session (part_005)                  *)
(***************************************************************************)
\* handleGroupMessage: the whole handler, for the message m with its text
handleGroupMessage(m, words, table, lookupFails, insertFails) ==
    IF m.fromMe \/ ~isEvangelismReport(words)
    THEN Outcome(EmptyObject, NotValidated, table, <<>>)
    ELSE LET parsedReport == parseReport(words)
         IN  handleParsedReport(m, parsedReport, validateParsedReport(parsedReport),
                                table, lookupFails, insertFails)

\* testReportState.get(userJid): undefined when the user has no entry
NoSession == [step |-> "none", selectedAssembly |-> 0]

\* hasActiveTestReport
hasActiveTestReport(session) == session.step # "none"

\* the months offered by processAssemblySelection
MonthsOffered == 12

\* what a handler of the test-report session leaves behind
Session(session, sent) == [session |-> session, sent |-> sent]

\* startTestReport
startTestReport(userJid) ==
    IF Len(Assemblies) = 0
    THEN Session(NoSession, <<textTo(userJid, "No clusters/assemblies configured.")>>)
    ELSE Session([step |-> "select_assembly", selectedAssembly |-> 0],
                 <<textTo(userJid, "Select the cluster you want a report for:")>>)

\* `isNaN(num) || num < 1 || num > length`
outOfRange(num, length) == num.t = "NaN" \/ num.n < 1 \/ num.n > length

\* processAssemblySelection
processAssemblySelection(userJid, message, session) ==
    LET num == parseInt(trim(message))
    IN  IF outOfRange(num, Len(Assemblies))
        THEN Session(session, <<textTo(userJid, "Please enter a valid number.")>>)
        ELSE Session([step |-> "select_month", selectedAssembly |-> num.n],
                     <<textTo(userJid, "Select the month for the report:")>>)

\* processMonthSelection. generated is how the generation of the report
\* ends: with no outreach in the month, with a PDF, or with an error.
processMonthSelection(userJid, message, session, generated) ==
    LET num == parseInt(trim(message))
    IN  IF outOfRange(num, MonthsOffered)
        THEN Session(session, <<textTo(userJid, "Please enter a valid number.")>>)
        ELSE Session(NoSession,
                     <<textTo(userJid, "Generating report...")>> \o
                     CASE generated = "empty" ->
                            <<textTo(userJid, "No evangelism reports found")>>
                       [] generated = "pdf" ->
                            <<textTo(userJid, "REPORT"), textTo(userJid, "Full Report")>>
                       [] OTHER -> <<textTo(userJid, "Error generating the report.")>>)

\* processTestReportResponse
processTestReportResponse(userJid, message, session, generated) ==
    IF ~hasActiveTestReport(session) THEN Session(session, <<>>)
    ELSE IF toLowerCase(trim(message)) = <<"c", "a", "n", "c", "e", "l">>
    THEN Session(NoSession, <<textTo(userJid, "Test report cancelled.")>>)
    ELSE IF session.step = "select_assembly"
    THEN processAssemblySelection(userJid, message, session)
    ELSE IF session.step = "select_month"
    THEN processMonthSelection(userJid, message, session, generated)
    ELSE Session(session, <<>>)

\* what a call of handleMessage leaves behind: the user's form state and
\* test-report session, the `reports` table, what was sent, and the handlers
\* called, in order
Handled(form, session, rows, sent, handlers) ==
    [form |-> form, session |-> session, rows |-> rows, sent |-> sent,
     handlers |-> handlers]

\* the outcomes of what handleMessage awaits: date is what validateDate
\* returns for the text; saveFails, lookupFails and insertFails say whether
\* createReport, getAssemblyByGroupJid and createGroupReport throw;
\* generated is how the generation of a test report ends
Awaited(date, saveFails, lookupFails, insertFails, generated) ==
    [date |-> date, saveFails |-> saveFails, lookupFails |-> lookupFails,
     insertFails |-> insertFails, generated |-> generated]

\* a faulty variant of startsForm for comparison: the test for the word is
\* made before the trim and the lowering
startsFormExactly(words, normalizedMessage) == words = <<"e", "v", "a", "n", "g", "e", "l", "i", "s", "m">>

\* `normalizedMessage === 'evangelism'`
startsForm(words, normalizedMessage) == normalizedMessage = <<"e", "v", "a", "n", "g", "e", "l", "i", "s", "m">>

\* a faulty variant of formTakes for comparison: the commands are looked at
\* before the active form
formTakesLast(form, normalizedMessage) ==
    hasActiveForm(form)
    /\ normalizedMessage \notin {<<"e", "v", "a", "n", "g", "e", "l", "i", "s", "m">>, <<"h", "e", "l", "p">>, <<"!", "h", "e", "l", "p">>,
                                 <<"t", "e", "s", "t", "r", "e", "p", "o", "r", "t">>, <<"!", "t", "e", "s", "t", "r", "e", "p", "o", "r", "t">>}

\* `if (await hasActiveForm(userJid))`
formTakes(form, normalizedMessage) == hasActiveForm(form)

\* handleMessage. m is msg.key; form and session are the user's form state
\* and test-report session; table is the `reports` table.
handleMessage(m, words, form, session, table, awaited) ==
    LET userJid == m.remoteJid
        isGroup == endsWith(userJid, <<"@", "g", ".", "u", "s">>)
        normalizedMessage == toLowerCase(trim(words))
    IN  IF isGroup
        THEN LET out == handleGroupMessage(m, words, table, awaited.lookupFails,
                                           awaited.insertFails)
             IN  Handled(form, session, out.rows, out.sent, <<"handleGroupMessage">>)
        ELSE IF hasActiveTestReport(session)
        THEN LET out == processTestReportResponse(userJid, words, session,
                                                  awaited.generated)
             IN  Handled(form, out.session, table, out.sent,
                         <<"processTestReportResponse">>)
        ELSE IF formTakes(form, normalizedMessage)
        THEN LET out == processFormResponse(userJid, words, form, table, awaited.date,
                                            awaited.saveFails)
             IN  Handled(out.state, session, out.rows, out.sent, <<"processFormResponse">>)
        ELSE IF startsForm(words, normalizedMessage)
        THEN LET out == startReportForm(userJid)
             IN  Handled(stateAfter(NoFormState, out), session, table, out.sent,
                         <<"startReportForm">>)
        ELSE IF normalizedMessage = <<"!", "h", "e", "l", "p">> \/ normalizedMessage = <<"h", "e", "l", "p">>
        THEN Handled(form, session, table,
                     <<textTo(userJid, "EVANGELISM REPORTER BOT")>>, <<"sendHelpMessage">>)
        ELSE IF normalizedMessage = <<"t", "e", "s", "t", "r", "e", "p", "o", "r", "t">> \/ normalizedMessage = <<"!", "t", "e", "s", "t", "r", "e", "p", "o", "r", "t">>
        THEN LET out == startTestReport(userJid)
             IN  Handled(form, out.session, table, out.sent, <<"startTestReport">>)
        ELSE IF startsWith(normalizedMessage, <<"!">>)
        THEN Handled(form, session, table,
                     <<textTo(userJid, "I don't recognize that command.")>>, <<>>)
        ELSE Handled(form, session, table, <<>>, <<>>)

(***************************************************************************)
(* Deleted messages (connection.js handleMessageDelete, part_003           *)
(* deleteReportByMessageId)                                                *)
(***************************************************************************)
\* key.id as it would be stored in the column wa_message_id
waMessageIdOf(key) == Str(toString(key.id))

\* a group message that was saved as a report
SavedAs(key, reportId) == [key |-> key, reportId |-> reportId]

\* no deletion event so far
NoDeletion == [keys |-> <<>>, failed |-> FALSE]

\* what deleteReportByMessageId leaves: whether it threw, the deleted report
\* (found FALSE for null) and the table
Deletion(threw, found, row, rows) ==
    [threw |-> threw, found |-> found, row |-> row, rows |-> rows]

\* deleteReportByMessageId: .eq('wa_message_id', waMessageId).single() finds
\* the one row with the id or gives PGRST116 (null is returned); the row is
\* then deleted. fetchFails and deleteFails say whether the database rejects
\* the select and the delete.
deleteReportByMessageId(table, waMessageId, fetchFails, deleteFails) ==
    LET found == {k \in DOMAIN table : table[k].wa_message_id = waMessageId}
    IN  IF fetchFails THEN Deletion(TRUE, FALSE, NoReport, table)
        ELSE IF Cardinality(found) # 1 THEN Deletion(FALSE, FALSE, NoReport, table)
        ELSE IF deleteFails THEN Deletion(TRUE, FALSE, NoReport, table)
        ELSE Deletion(FALSE, TRUE, table[CHOOSE k \in found : TRUE],
                      SelectSeq(table, LAMBDA row : row.wa_message_id # waMessageId))

\* the notice sent to the group after a report was deleted
deletionNotice(groupJid, row) == plainReply(groupJid, "Report has been deleted.", <<>>, row.id)

\* handleMessageDelete: key after key; a key of no group is skipped, a key
\* of no tracked report ignored, an error is caught and the next key taken.
\* awaited[i] names the awaited call that fails for the i-th key, if any.
RECURSIVE handleMessageDelete(_, _, _, _)
handleMessageDelete(keys, awaited, table, sent) ==
    IF keys = <<>> THEN [rows |-> table, sent |-> sent]
    ELSE LET key == Head(keys)
             groupJid == key.remoteJid
             del == deleteReportByMessageId(table, waMessageIdOf(key),
                                            Head(awaited) = "select",
                                            Head(awaited) = "delete")
             notified == IF del.found /\ Head(awaited) # "sendMessage"
                         THEN <<deletionNotice(groupJid, del.row)>>
                         ELSE <<>>
         IN  IF ~endsWith(groupJid, <<"@", "g", ".", "u", "s">>)
             THEN handleMessageDelete(Tail(keys), Tail(awaited), table, sent)
             ELSE handleMessageDelete(Tail(keys), Tail(awaited), del.rows, sent \o notified)

(***************************************************************************)
(* The monthly reports (aiReportGenerator.js generateAssemblyReports) and  *)
(* their distribution (scheduler.js generateAndDistributeMonthlyReport)    *)
(***************************************************************************)
\* getPreviousMonthRange() on the day of the run: the month before, and
\* getMonthName of its first day
PreviousMonth ==
    [start |-> <<"2", "0", "2", "6", "-", "0", "2", "-", "0", "1">>, end |-> <<"2", "0", "2", "6", "-", "0", "2", "-", "2", "8">>, name |-> "February 2026"]

\* a <= b for two strings, as the database compares dates written as text
stringAtMost(a, b) == a = b \/ stringLess(a, b)

\* getReportsForAssembly: the rows of the assembly dated within the range.
\* fails says whether the database rejects the query.
getReportsForAssembly(table, assemblyId, startDate, endDate) ==
    SelectSeq(table, LAMBDA row :
        /\ row.assembly_id = assemblyId
        /\ row.activity_date.t = "string"
        /\ stringAtMost(startDate, row.activity_date.s)
        /\ stringAtMost(row.activity_date.s, endDate))

\* generateAssemblyReports: one report per assembly, in the order of
\* getAllAssemblies; an assembly whose report has no outreach is left out,
\* and so is one whose generation throws (failing holds the ids of those
\* for which the database query throws)
RECURSIVE generateAssemblyReports(_, _, _, _)
generateAssemblyReports(assemblies, table, range, failing) ==
    IF assemblies = <<>> THEN <<>>
    ELSE LET assembly == Head(assemblies)
             rest == generateAssemblyReports(Tail(assemblies), table, range, failing)
             rep == generateAssemblyReport(assembly, range.name,
                        getReportsForAssembly(table, assembly.id, range.start, range.end),
                        NoCollaborator, FALSE)
         IN  IF assembly.id \in failing \/ rep.threw THEN rest
             ELSE IF rep.totalOutreaches > 0 THEN <<rep>> \o rest
             ELSE rest

\* no monthly run so far
NoRun == [done |-> FALSE, generationFailed |-> {}, socket |-> "null", failures |-> <<>>]

\* a message of the distribution: the text summary or the PDF document of
\* the report of the assembly named
monthlyMessage(groupJid, kind, rep) ==
    [to |-> groupJid, kind |-> kind, mentions |-> <<>>, lines |-> <<rep.assemblyName>>,
     reportId |-> 0]

\* assemblies.find(a => a.name === report.assemblyName): the position of the
\* first assembly with the name, 0 when there is none
findByName(assemblies, name) ==
    IF \E k \in DOMAIN assemblies : assemblies[k].name = name
    THEN Min({k \in DOMAIN assemblies : assemblies[k].name = name})
    ELSE 0

\* what the try of one assembly sent and whether it threw
Tried(sent, threw) == [sent |-> sent, threw |-> threw]

\* the try block for one report, lines 79-101: the PDF is generated, the
\* summary sent, the PDF read and sent. failure names the call that throws;
\* on a socket that is not open every sendMessage throws.
sendAssemblyReport(rep, assembly, socket, failure) ==
    LET groupJid == assembly.whatsapp_group_id
        summary == monthlyMessage(groupJid, "MONTHLY EVANGELISM REPORT", rep)
        document == monthlyMessage(groupJid, "document", rep)
    IN  IF failure = "generatePDFReport" THEN Tried(<<>>, TRUE)
        ELSE IF socket # "open" \/ failure = "summary" THEN Tried(<<>>, TRUE)
        ELSE IF failure = "document" THEN Tried(<<summary>>, TRUE)
        ELSE Tried(<<summary, document>>, FALSE)

\* a faulty variant of afterCatch for comparison: the first failure ends the
\* distribution
afterThrow(remaining) == <<>>

\* the catch of lines 102-104 logs the error and the loop goes on with the
\* reports that remain
afterCatch(remaining) == remaining

\* the loop of lines 72-105 over the reports; failures[id] names the call
\* that throws for the assembly with the id
RECURSIVE sendEach(_, _, _, _)
sendEach(reports, assemblies, socket, failures) ==
    IF reports = <<>> THEN <<>>
    ELSE LET rep == Head(reports)
             at == findByName(assemblies, rep.assemblyName)
         IN  IF at = 0 \/ assemblies[at].whatsapp_group_id = <<>>
             THEN sendEach(Tail(reports), assemblies, socket, failures)
             ELSE LET tried == sendAssemblyReport(rep, assemblies[at], socket,
                                                  failures[assemblies[at].id])
                  IN  tried.sent \o
                      sendEach(IF tried.threw THEN afterCatch(Tail(reports))
                               ELSE Tail(reports),
                               assemblies, socket, failures)

\* generateAndDistributeMonthlyReport after generateAssemblyReports returned:
\* nothing is sent when there is no report, when getSocket() gives null and
\* when getAllAssemblies throws (listFails)
distribute(reports, socket, listFails, failures) ==
    IF Len(reports) = 0 THEN <<>>
    ELSE IF socket = "null" THEN <<>>
    ELSE IF listFails THEN <<>>
    ELSE sendEach(reports, Assemblies, socket, failures)

(***************************************************************************)
(* Inputs                                                                  *)
(***************************************************************************)
\* the number of pieces a composed message is made of, at most
MaxPieces == 3

\* what a sender types: labels in several spellings, values, separators
Pieces ==
    { <<"D", "a", "t", "e", ":">>, <<"s", "a", "v", "e", "d", " ", "=">>, <<"T", "e", "a", "m", ":">>, <<"N", "a", "m", "e">>, <<":">>, <<"x", " ">>, <<"-", "5">>,
      <<"1", "/", "2", "/", "2", "0", "2", "6">>, <<"*">> }

RECURSIVE Compose(_)
Compose(n) ==
    IF n = 0 THEN {<<>>}
    ELSE LET shorter == Compose(n - 1)
         IN  shorter \cup {m \o p : m \in shorter, p \in Pieces}

SampleReport ==
    <<"E", "V", "A", "N", "G", "E", "L", "I", "S", "M", " ", "R", "E", "P", "O", "R", "T", "\n", "D", "a", "t", "e", ":", " ", "1", "0", "/", "0", "2", "/", "2", "0", "2", "6", "\n", "L", "o", "c", "a", "t", "i", "o", "n", ":", " ", "S", "a", "k", "u", "b", "v", "a", "\n", "T", "y", "p", "e", ":", " ", "S", "t", "r", "e", "e", "t", " ", "E", "v", "a", "n", "g", "e", "l", "i", "s", "m", "\n", "P", "r", "e", "a", "c", "h", "e", "r", "s", ":", " ", "B", "r", " ", "T", "a", "d", "i", "w", "a", " ", "a", "n", "d", " ", "S", "i", "s", "t", "e", "r", " ", "G", "r", "a", "c", "e", "\n", "S", "u", "m", "m", "a", "r", "y", ":", " ", "P", "r", "e", "a", "c", "h", "e", "d", " ", "o", "n", " ", "r", "e", "p", "e", "n", "t", "a", "n", "c", "e", "\n", "S", "a", "v", "e", "d", ":", " ", "3", "\n", "H", "e", "a", "l", "e", "d", ":", " ", "1">>

\* the same report without its Summary line
SampleMissingSummary ==
    <<"E", "V", "A", "N", "G", "E", "L", "I", "S", "M", " ", "R", "E", "P", "O", "R", "T", "\n", "D", "a", "t", "e", ":", " ", "1", "0", "/", "0", "2", "/", "2", "0", "2", "6", "\n", "L", "o", "c", "a", "t", "i", "o", "n", ":", " ", "S", "a", "k", "u", "b", "v", "a", "\n", "T", "y", "p", "e", ":", " ", "S", "t", "r", "e", "e", "t", " ", "E", "v", "a", "n", "g", "e", "l", "i", "s", "m", "\n", "P", "r", "e", "a", "c", "h", "e", "r", "s", ":", " ", "B", "r", " ", "T", "a", "d", "i", "w", "a", " ", "a", "n", "d", " ", "S", "i", "s", "t", "e", "r", " ", "G", "r", "a", "c", "e", "\n", "S", "a", "v", "e", "d", ":", " ", "3", "\n", "H", "e", "a", "l", "e", "d", ":", " ", "1">>

Messages == Compose(MaxPieces) \cup {SampleReport, SampleMissingSummary}

\* ParsedReports handed to the validator directly (counts numbers,
\* preachers_team always set): each required text field absent, empty,
\* all white space or filled; the date absent, null, all white space,
\* canonical or not
TextChoices == {Undefined, Str(<<>>), Str(<<" ">>), Str(<<"x">>)}
DateChoices == {Undefined, Null, Str(<<" ">>), Str(<<"2", "0", "2", "6", "-", "0", "2", "-", "1", "0">>), Str(<<"2", "0", "2", "6", "0", "-", "0", "1", "-", "0", "1">>)}
SavedChoices == {Undefined, Num(3)}
HealedChoices == {Undefined, Num(0)}

\* the object with exactly the chosen keys that are not undefined
MakeReport(date, loc, type, summary, saved, healed) ==
    LET all == [activity_date |-> date, location |-> loc, activity_type |-> type,
                message_summary |-> summary, saved |-> saved, healed |-> healed,
                preachers_team |-> Str(<<"N", "o", "t", " ", "s", "p", "e", "c", "i", "f", "i", "e", "d">>)]
        keys == {f \in DOMAIN all : all[f].t # "undefined"}
    IN  [f \in keys |-> all[f]]

GivenReports ==
    {MakeReport(date, loc, type, summary, saved, healed) :
        date \in DateChoices, loc \in TextChoices, type \in TextChoices,
        summary \in TextChoices, saved \in SavedChoices, healed \in HealedChoices}

(***************************************************************************)
(* The parse pipeline: a message is parsed, the report validated           *)
(***************************************************************************)
\* msg.key before any message came
NoMsg == [remoteJid |-> <<>>, participant |-> <<>>, fromMe |-> FALSE, id |-> 0]

\* no report being generated
NotAggregating ==
    /\ batch = <<>> /\ collaborator = NoCollaborator /\ mapFails = FALSE
    /\ assemblyReport = NotGenerated
    /\ refed = NotRefed /\ reordered = NotGenerated

\* no private chat going on, no report being posted, no message deleted,
\* no monthly run
Resting ==
    /\ calls = <<>>
    /\ savedFrom = {} /\ deleted = NoDeletion
    /\ assemblyReports = <<>> /\ monthlyRun = NoRun
    /\ formState = NoFormState /\ testReportState = NoSession
    /\ replies = <<>> /\ routed = <<>>
    /\ before = [form |-> NoFormState, session |-> NoSession, rows |-> <<>>]

Idle ==
    /\ NotAggregating
    /\ Resting
    /\ dateInput = <<>> /\ normalized = Null /\ reparsed = NotReparsed
    /\ msg = NoMsg /\ reportsTable = <<>> /\ outbox = <<>> /\ handled = 0

\* either a message text arrives, or a ParsedReport is handed to the validator
Init ==
    /\ \/ /\ messageText \in Messages
          /\ report = EmptyObject
          /\ pc = "received"
       \/ /\ messageText = <<>>
          /\ report \in GivenReports
          /\ pc = "given"
    /\ validation = NotValidated
    /\ today = Date(2026, 3, 1)
    /\ tzWest = FALSE
    /\ Idle

Parse ==
    /\ pc = "received"
    /\ report' = parseReport(messageText)
    /\ pc' = "parsed"
    /\ UNCHANGED <<messageText, validation, envVars, dateVars, groupVars, aggVars, restVars>>

Validate ==
    /\ pc \in {"parsed", "given"}
    /\ validation' = validateParsedReport(report)
    /\ pc' = IF pc = "parsed" THEN "validated" ELSE "checked"
    /\ UNCHANGED <<messageText, report, envVars, dateVars, groupVars, aggVars, restVars>>

Next == Parse \/ Validate

Spec == Init /\ [][Next]_vars

(***************************************************************************)
(* The date normalizer under study: a date string is normalized, and the   *)
(* result handed to the form's date validator                              *)
(***************************************************************************)
DayParts == {<<"0">>, <<"1">>, <<"0", "1">>, <<"9">>, <<"2", "8">>, <<"2", "9">>, <<"3", "1">>, <<"3", "2">>, <<"1", "x">>}
MonthParts == {<<"0">>, <<"2">>, <<"0", "2">>, <<"3">>, <<"1", "2">>, <<"1", "3">>}
YearParts == {<<"2", "6">>, <<"1", "9", "9", "9">>, <<"2", "0", "0", "0">>, <<"2", "0", "2", "4">>, <<"2", "0", "2", "6">>, <<"2", "0", "2", "7">>, <<"2", "0", "2", "6", "0">>}
DateSeparators == {<<"/">>, <<"-">>, <<".">>}

OtherDateStrings ==
    {<<>>, <<"t", "o", "d", "a", "y">>, <<" ", "T", "o", "d", "a", "y", " ">>, <<"Y", "E", "S", "T", "E", "R", "D", "A", "Y">>, <<"t", "o", "m", "o", "r", "r", "o", "w">>, <<"1", "/", "2">>, <<"1", "/", "2", "/", "2", "0", "2", "6", "/", "4">>,
     <<"2", "0", "2", "6", "-", "0", "2", "-", "1", "0">>, <<" ", "1", "0", "/", "0", "2", "/", "2", "0", "2", "6", " ">>, <<"1", "0", " ", "/", " ", "0", "2", " ", "/", " ", "2", "0", "2", "6">>}

DateStrings ==
    {d \o s1 \o m \o s2 \o y :
        d \in DayParts, s1 \in DateSeparators, m \in MonthParts,
        s2 \in DateSeparators, y \in YearParts}
    \cup OtherDateStrings

Todays == {Date(2026, 3, 1), Date(2024, 2, 29)}

NotParsing ==
    /\ messageText = <<>> /\ report = EmptyObject /\ validation = NotValidated
    /\ msg = NoMsg /\ reportsTable = <<>> /\ outbox = <<>> /\ handled = 0
    /\ NotAggregating
    /\ Resting

DateInit ==
    /\ dateInput \in DateStrings
    /\ today \in Todays
    /\ tzWest \in BOOLEAN
    /\ normalized = Null
    /\ reparsed = NotReparsed
    /\ pc = "date"
    /\ NotParsing

Normalize ==
    /\ pc = "date"
    /\ normalized' = convertDateFormat(dateInput)
    /\ pc' = "normalized"
    /\ UNCHANGED <<parseVars, envVars, dateInput, reparsed, groupVars, aggVars, restVars>>

Reparse ==
    /\ pc = "normalized"
    /\ normalized # Null
    /\ reparsed' \in validateDate(normalized.s)
    /\ pc' = "reparsed"
    /\ UNCHANGED <<parseVars, envVars, dateInput, normalized, groupVars, aggVars, restVars>>

DateNext == Normalize \/ Reparse

DateSpec == DateInit /\ [][DateNext]_vars

(***************************************************************************)
(* Group messages arrive and are handled one after the other               *)
(***************************************************************************)
\* the number of group messages handled in a run, at most
MaxHandled == 2

\* a report with every required field
GroupValid ==
    <<"E", "v", "a", "n", "g", "e", "l", "i", "s", "m", " ", "R", "e", "p", "o", "r", "t", "\n", "D", "a", "t", "e", ":", " ", "1", "/", "3", "/", "2", "0", "2", "6", "\n", "P", "l", "a", "c", "e", ":", " ", "C", "B", "D", "\n", "T", "y", "p", "e", ":", " ", "S", "t", "r", "e", "e", "t", "\n", "S", "u", "m", "m", "a", "r", "y", ":", " ", "H", "o", "p", "e">>

\* a report with markup, labels closed by '=', and a reporter name
GroupMarkedUp ==
    <<"*", "E", "V", "A", "N", "G", "E", "L", "I", "S", "M", " ", "R", "E", "P", "O", "R", "T", "*", "\n", "V", "e", "n", "u", "e", "=", " ", "C", "B", "D", "\n", "A", "c", "t", "i", "v", "i", "t", "y", " ", "=", " ", "C", "r", "u", "s", "a", "d", "e", "\n", "M", "e", "s", "s", "a", "g", "e", ":", " ", "H", "o", "p", "e", "\n", "D", "a", "t", "e", ":", " ", "1", ".", "3", ".", "2", "0", "2", "6", "\n", "N", "a", "m", "e", ":", " ", "G", "r", "a", "c", "e">>

\* a report without its summary
GroupMissingSummary ==
    <<"E", "V", "A", "N", "G", "E", "L", "I", "S", "M", " ", "R", "E", "P", "O", "R", "T", "\n", "D", "a", "t", "e", ":", " ", "1", "0", "/", "0", "2", "/", "2", "0", "2", "6", "\n", "L", "o", "c", "a", "t", "i", "o", "n", ":", " ", "S", "a", "k", "u", "b", "v", "a", "\n", "T", "y", "p", "e", ":", " ", "S", "t", "r", "e", "e", "t">>

\* a report with an unreadable date, no type and no summary
GroupBadDate ==
    <<"E", "v", "a", "n", "g", "e", "l", "i", "s", "m", " ", "r", "e", "p", "o", "r", "t", "\n", "D", "a", "t", "e", ":", " ", "t", "o", "m", "o", "r", "r", "o", "w", "\n", "P", "l", "a", "c", "e", ":", " ", "C", "B", "D", "\n", "R", "e", "p", "o", "r", "t", "e", "d", " ", "b", "y", ":", " ", "G", "r", "a", "c", "e">>

\* the fields of a report without the opening words
GroupNoHeader ==
    <<"D", "a", "t", "e", ":", " ", "1", "/", "3", "/", "2", "0", "2", "6", "\n", "P", "l", "a", "c", "e", ":", " ", "C", "B", "D", "\n", "T", "y", "p", "e", ":", " ", "S", "t", "r", "e", "e", "t", "\n", "S", "u", "m", "m", "a", "r", "y", ":", " ", "H", "o", "p", "e">>

GroupMessages ==
    {GroupValid, GroupMarkedUp, GroupMissingSummary, GroupBadDate, GroupNoHeader, <<"h", "e", "l", "l", "o">>}

\* the group of the assembly, and a group no assembly is mapped to
GroupJids == {<<"1", "2", "0", "3", "6", "3", "0", "2", "4", "5", "@", "g", ".", "u", "s">>, <<"1", "2", "0", "3", "6", "3", "9", "9", "9", "9", "@", "g", ".", "u", "s">>}

\* in a group, msg.key.participant is the sender's JID
SenderJids == {<<"2", "6", "3", "7", "7", "1", "2", "3", "@", "s", ".", "w", "h", "a", "t", "s", "a", "p", "p", ".", "n", "e", "t">>}

GroupInit ==
    /\ messageText = <<>>
    /\ report = EmptyObject
    /\ validation = NotValidated
    /\ today = Date(2026, 3, 1)
    /\ tzWest = FALSE
    /\ dateInput = <<>> /\ normalized = Null /\ reparsed = NotReparsed
    /\ msg = NoMsg
    /\ reportsTable = <<>>
    /\ outbox = <<>>
    /\ handled = 0
    /\ NotAggregating
    /\ Resting
    /\ pc = "idle"

\* a message of a group reaches handleGroupMessage
Receive ==
    /\ pc = "idle"
    /\ handled < MaxHandled
    /\ \E g \in GroupJids, s \in SenderJids, own \in BOOLEAN, text \in GroupMessages :
          /\ msg' = [remoteJid |-> g, participant |-> s, fromMe |-> own, id |-> handled + 1]
          /\ messageText' = text
    /\ report' = EmptyObject
    /\ validation' = NotValidated
    /\ pc' = "handling"
    /\ UNCHANGED <<envVars, dateVars, aggVars, restVars, reportsTable, outbox, handled>>

\* handleGroupMessage: the whole handler. A message of the bot itself and a
\* message that is no evangelism report are dropped; otherwise the text is
\* parsed and validated (each once) and the handler goes on from there.
HandleGroupMessage ==
    /\ pc = "handling"
    /\ \/ /\ msg.fromMe \/ ~isEvangelismReport(messageText)
          /\ UNCHANGED <<report, validation, reportsTable, outbox, savedFrom>>
       \/ /\ ~msg.fromMe /\ isEvangelismReport(messageText)
          /\ \E parsedReport \in {parseReport(messageText)} :
             \E val \in {validateParsedReport(parsedReport)} :
             \E lookupFails \in BOOLEAN, insertFails \in BOOLEAN :
             \E out \in {handleParsedReport(msg, parsedReport, val, reportsTable,
                                            lookupFails, insertFails)} :
                /\ report' = out.report
                /\ validation' = out.validation
                /\ reportsTable' = out.rows
                /\ outbox' = outbox \o out.sent
                /\ savedFrom' = IF out.rows = reportsTable THEN savedFrom
                                ELSE savedFrom \cup {SavedAs(msg, Len(out.rows))}
    /\ handled' = handled + 1
    /\ pc' = "idle"
    /\ UNCHANGED <<messageText, msg, envVars, dateVars, aggVars, chatVars, postVars, deleted,
                   monthlyVars>>

GroupNext == Receive \/ HandleGroupMessage

GroupSpec == GroupInit /\ [][GroupNext]_vars

(***************************************************************************)
(* Group messages are handled and, later, deleted by their senders         *)
(***************************************************************************)
\* the key of a group message that never reached the bot
UnknownKey ==
    [remoteJid |-> <<"1", "2", "0", "3", "6", "3", "0", "2", "4", "5", "@", "g", ".", "u", "s">>, participant |-> <<"2", "6", "3", "7", "7", "1", "2", "3", "@", "s", ".", "w", "h", "a", "t", "s", "a", "p", "p", ".", "n", "e", "t">>,
     fromMe |-> FALSE, id |-> 99]

\* the key of a message of a private chat
PrivateKey ==
    [remoteJid |-> <<"2", "6", "3", "7", "7", "1", "2", "3", "@", "s", ".", "w", "h", "a", "t", "s", "a", "p", "p", ".", "n", "e", "t">>, participant |-> <<>>,
     fromMe |-> FALSE, id |-> 1]

\* the keys of the messages saved as reports
SavedKeys == {s.key : s \in savedFrom}

\* a deletion event carries one key (a REVOKE protocol message, or
\* messages.delete) or several (messages.delete): here a saved message's
\* key followed by an unknown one
KeyLists ==
    {<<k>> : k \in SavedKeys \cup {UnknownKey, PrivateKey}}
        \cup {<<k, UnknownKey>> : k \in SavedKeys}

\* the awaited call that fails while a key is handled
AwaitFailures == {"none", "select", "delete", "sendMessage"}

\* the failures of an event: an awaited call may fail while its first key is
\* handled, and the keys after it meet a working database and socket
FailuresFor(keys) ==
    {[i \in DOMAIN keys |-> IF i = 1 THEN f ELSE "none"] : f \in AwaitFailures}

\* a deletion event reaches handleMessageDelete
DeleteMessages ==
    /\ pc = "idle"
    /\ \E keys \in KeyLists : \E awaited \in FailuresFor(keys) :
       \E out \in {handleMessageDelete(keys, awaited, reportsTable, <<>>)} :
          /\ deleted' = [keys |-> keys,
                         failed |-> \E i \in DOMAIN keys : awaited[i] # "none"]
          /\ reportsTable' = out.rows
          /\ outbox' = outbox \o out.sent
    /\ UNCHANGED <<parseVars, envVars, dateVars, aggVars, chatVars, postVars, monthlyVars,
                   msg, handled, savedFrom, pc>>

DeleteNext == Receive \/ HandleGroupMessage \/ DeleteMessages

DeleteSpec == GroupInit /\ [][DeleteNext]_vars

(***************************************************************************)
(* The aggregation under study: the records fetched for an assembly are    *)
(* aggregated; the lists of the result are deduplicated once more; the     *)
(* same records are aggregated in another order                            *)
(***************************************************************************)
MaxBatch == 2

Row(location, team, type, summary, saved, healed) ==
    [location |-> location, preachers_team |-> team, activity_type |-> type,
     message_summary |-> summary, saved |-> saved, healed |-> healed]

\* records as the reports table holds them: variants of one place and of one
\* person, placeholders, nulls, punctuation apart from the word
Rows ==
    { Row(Str(<<"S", "a", "k", "u", "b", "v", "a", ".">>), Str(<<"B", "r", " ", "T", "a", "d", "i", "w", "a", " ", "a", "n", "d", " ", "b", "r", "o", "t", "h", "e", "r", " ", "t", "a", "d", "i", "w", "a", ".">>), Str(<<"S", "t", "r", "e", "e", "t">>),
          Str(<<"R", "e", "p", "e", "n", "t">>), Num(3), Num(1)),
      Row(Str(<<"s", "a", "k", "u", "b", "v", "a">>), Str(<<"S", "i", "s", "t", "e", "r", " ", "G", "r", "a", "c", "e", ",", " ", "S", "R", " ", "G", "R", "A", "C", "E", "/">>), Str(<<"s", "t", "r", "e", "e", "t", " ">>),
          Str(<<"F", "a", "i", "t", "h">>), Num(0), Num(2)),
      Row(Null, Null, Null, Null, Null, Null),
      Row(Str(<<"C", "B", "D", " ", "/", " ", "R", "a", "n", "k">>), Str(<<"N", "o", "t", " ", "s", "p", "e", "c", "i", "f", "i", "e", "d">>), Str(<<"D", "o", "o", "r">>),
          Str(<<"R", "e", "p", "e", "n", "t">>), Num(1), Null),
      Row(Str(<<"(", "c", "b", "d", "/", "r", "a", "n", "k", ")", "!">>), Str(<<"N", "/", "A", ",", " ", "u", "n", "k", "n", "o", "w", "n", " ", "A", "N", "D", " ", "-", ",", ",", "N", "O", "N", "E">>), Str(<<"D", "o", "o", "r">>),
          Null, Null, Num(4)),
      Row(Str(<<"S", "a", "k", "u", "b", "v", "a", ".", " ", ".">>), Str(<<"J", "o", ",", " ", "j", "o", ".">>), Str(<<"S", "t", "r", "e", "e", "t">>),
          Str(<<"F", "a", "i", "t", "h">>), Num(2), Num(0)),
      Row(Str(<<"A", "v", "e", "n", "u", "e", "s">>), Str(<<"n", "o", "n", "e", ".", " ", ".">>), Null,
          Str(<<"H", "o", "p", "e">>), Num(0), Num(1)),
      Row(Str(<<"M", "b", "a", "r", "e">>), Str(<<"M", "r", ".", " ", "M", "o", "y", "o", " ", "a", "n", "d", " ", "m", "r", " ", "M", "o", "y", "o", "!", ",", " ", "M", "r", "s", " ", "M", "o", "y", "o", ",", " ", "M", "R", "S", ".", " ", "M", "O", "Y", "O", ";">>), Str(<<"D", "o", "o", "r">>),
          Str(<<"H", "o", "p", "e">>), Num(1), Num(1)) }

Batches == UNION {[1..n -> Rows] : n \in 0..MaxBatch}

\* a response with its three sections
FullResponse ==
    [narrative |-> "The Gospel was carried through Mutare.",
     emphasis |-> <<"Repentance", "Faith">>,
     conclusion |-> "The work continues."]

\* the collaborator: no API key configured; the request throws; the
\* completion has no content; a response with or without its sections
Collaborators ==
    { NoCollaborator,
      [apiKey |-> TRUE, fails |-> TRUE, hasContent |-> FALSE, response |-> EmptyResponse],
      [apiKey |-> TRUE, fails |-> FALSE, hasContent |-> FALSE, response |-> EmptyResponse],
      [apiKey |-> TRUE, fails |-> FALSE, hasContent |-> TRUE, response |-> EmptyResponse],
      [apiKey |-> TRUE, fails |-> FALSE, hasContent |-> TRUE, response |-> FullResponse] }

\* options.periodTitle
Period == "February 2026"

\* the records fetched; no API key is configured and the map is drawn
AggInit ==
    /\ batch \in Batches
    /\ collaborator = NoCollaborator
    /\ mapFails = FALSE
    /\ assemblyReport = NotGenerated
    /\ refed = NotRefed
    /\ reordered = NotGenerated
    /\ today = Date(2026, 3, 1)
    /\ tzWest = FALSE
    /\ dateInput = <<>> /\ normalized = Null /\ reparsed = NotReparsed
    /\ messageText = <<>> /\ report = EmptyObject /\ validation = NotValidated
    /\ msg = NoMsg /\ reportsTable = <<>> /\ outbox = <<>> /\ handled = 0
    /\ Resting
    /\ pc = "fetched"

\* generateAssemblyReport on the fetched records
GenerateAssemblyReport ==
    /\ pc = "fetched"
    /\ \E data \in {generateAssemblyReport(Assemblies[1], Period, batch,
                                           collaborator, mapFails)} :
          assemblyReport' = data
    /\ pc' = "generated"
    /\ UNCHANGED <<parseVars, envVars, dateVars, groupVars, restVars, batch, collaborator,
                   mapFails, refed, reordered>>

\* the locations and the labourers of the report go through their
\* deduplication once more
Refeed ==
    /\ pc = "generated"
    /\ ~assemblyReport.threw
    /\ \E locations \in {deduplicateLocations(assemblyReport.locations)} :
       \E labourers \in {deduplicateLabourers(assemblyReport.labourers)} :
          refed' = [done |-> TRUE, locations |-> locations, labourers |-> labourers]
    /\ pc' = "refed"
    /\ UNCHANGED <<parseVars, envVars, dateVars, groupVars, restVars, batch, collaborator,
                   mapFails, assemblyReport, reordered>>

\* generateAssemblyReport on the same records in another order
Reorder ==
    /\ pc = "generated"
    /\ \E p \in Permutations(DOMAIN batch) :
       \E data \in {generateAssemblyReport(Assemblies[1], Period,
                                           [i \in DOMAIN batch |-> batch[p[i]]],
                                           collaborator, mapFails)} :
          reordered' = data
    /\ pc' = "reordered"
    /\ UNCHANGED <<parseVars, envVars, dateVars, groupVars, restVars, batch, collaborator,
                   mapFails, assemblyReport, refed>>

AggNext == GenerateAssemblyReport \/ Refeed \/ Reorder

AggSpec == AggInit /\ [][AggNext]_vars


(***************************************************************************)
(* The report with its services: the narrative collaborator answers,       *)
(* fails or is absent, and the map is drawn or not                         *)
(***************************************************************************)
ReportInit ==
    /\ batch \in Batches
    /\ collaborator \in Collaborators
    /\ mapFails \in BOOLEAN
    /\ assemblyReport = NotGenerated
    /\ refed = NotRefed
    /\ reordered = NotGenerated
    /\ today = Date(2026, 3, 1)
    /\ tzWest = FALSE
    /\ dateInput = <<>> /\ normalized = Null /\ reparsed = NotReparsed
    /\ messageText = <<>> /\ report = EmptyObject /\ validation = NotValidated
    /\ msg = NoMsg /\ reportsTable = <<>> /\ outbox = <<>> /\ handled = 0
    /\ Resting
    /\ pc = "fetched"

ReportNext == GenerateAssemblyReport

ReportSpec == ReportInit /\ [][ReportNext]_vars
(***************************************************************************)
(* Messages reach handleMessage one after the other (connection.js 74-141  *)
(* awaits the handler of a message before it takes the next)               *)
(***************************************************************************)
\* the number of reports saved in a run, at most
MaxSaved == 1

\* the user writing to the bot in a private chat
UserJid == <<"2", "6", "3", "7", "7", "1", "2", "3", "@", "s", ".", "w", "h", "a", "t", "s", "a", "p", "p", ".", "n", "e", "t">>

\* msg.key of a private message and of a message in the assembly's group
ChatKeys ==
    {[remoteJid |-> UserJid, participant |-> <<>>, fromMe |-> FALSE, id |-> 1],
     [remoteJid |-> <<"1", "2", "0", "3", "6", "3", "0", "2", "4", "5", "@", "g", ".", "u", "s">>, participant |-> UserJid, fromMe |-> FALSE, id |-> 1]}

\* the commands of the bot, the wake phrase of the configuration, and a
\* command as a user may type it
CommandWords ==
    {<<"e", "v", "a", "n", "g", "e", "l", "i", "s", "m">>, wakePhrase, <<"h", "e", "l", "p">>, <<"t", "e", "s", "t", "r", "e", "p", "o", "r", "t">>}

CommandsAsTyped == {<<" ", "E", "v", "a", "n", "g", "e", "l", "i", "s", "m", " ">>, <<"!", "h", "e", "l", "p">>, <<"!", "u", "n", "k", "n", "o", "w", "n">>, <<"h", "e", "l", "l", "o">>}

\* 'cancel' as users type it
CancelWords == {<<"c", "a", "n", "c", "e", "l">>, <<" ", "C", "a", "n", "c", "e", "l", " ">>, <<"C", "A", "N", "C", "E", "L", "\n">>}

\* a text longer than the longest field of the form takes
LongText == [i \in 1..1001 |-> "a"]

\* answers that pass the validation of a step, two commands of the bot
\* among them
Answers(step) ==
    CASE step = STEPS.ASSEMBLY -> {<<"1">>, <<" ", "2", " ">>}
      [] step = STEPS.DATE -> {<<"t", "o", "d", "a", "y">>}
      [] step = STEPS.LOCATION -> {<<"C", "B", "D">>, <<"e", "v", "a", "n", "g", "e", "l", "i", "s", "m">>, <<"t", "e", "s", "t", "r", "e", "p", "o", "r", "t">>}
      [] step = STEPS.ACTIVITY_TYPE -> {<<"1">>, <<"9">>}
      [] step = STEPS.CUSTOM_ACTIVITY_TYPE -> {<<"B", "u", "s", " ", "E", "v", "a", "n", "g", "e", "l", "i", "s", "m">>}
      [] step = STEPS.PREACHERS_TEAM -> {<<"G", "r", "a", "c", "e", ",", " ", "T", "o", "m">>}
      [] step = STEPS.MESSAGE_SUMMARY -> {<<"H", "o", "p", "e", " ", "i", "n", " ", "C", "h", "r", "i", "s", "t">>}
      [] step = STEPS.RESPONSE_MOMENTS -> {<<"N", "o", "n", "e">>, <<"M", "a", "n", "y", " ", "w", "e", "p", "t">>}
      [] step = STEPS.CONVERTS -> {<<"3">>}
      [] step = STEPS.SICK_PRAYED_FOR -> {<<"0">>}
      [] step = STEPS.REPORTER_NAME -> {<<"G", "r", "a", "c", "e">>}
      [] step = STEPS.CONFIRMATION -> {<<"y", "e", "s">>, <<" ", "Y", " ">>, <<"n", "o">>}
      [] OTHER -> {}

\* answers that fail the validation of a step
WrongAnswers(step) ==
    CASE step = STEPS.ASSEMBLY -> {<<"x">>, <<"9">>, <<"0">>}
      [] step = STEPS.DATE -> {<<"x">>, <<"3", "1", "/", "1", "2", "/", "2", "0", "3", "0">>}
      [] step = STEPS.ACTIVITY_TYPE -> {<<"x">>, <<"1", "0">>}
      [] step = STEPS.MESSAGE_SUMMARY -> {<<"x">>, <<"H", "o", "p", "e">>}
      [] step \in {STEPS.CONVERTS, STEPS.SICK_PRAYED_FOR} -> {<<"x">>, <<"-", "1">>}
      [] step = STEPS.RESPONSE_MOMENTS -> {LongText}
      [] OTHER -> {<<"x">>}

\* the steps at which a user sends a command of the bot that is no answer
\* to the step
CommandSteps ==
    {STEPS.ASSEMBLY, STEPS.DATE, STEPS.ACTIVITY_TYPE, STEPS.CONVERTS,
     STEPS.SICK_PRAYED_FOR, STEPS.CONFIRMATION}

\* the steps of the user's form at which a report is sent in the group
GroupReportSteps == {STEPS.ASSEMBLY}

\* the texts a message may carry, given where it is sent and the sessions
\* of the user
Offered(m, form, session) ==
    IF m.remoteJid # UserJid
    THEN {<<"h", "e", "l", "l", "o">>, <<"e", "v", "a", "n", "g", "e", "l", "i", "s", "m">>}
         \cup (IF form.current_form_step \in GroupReportSteps THEN {GroupValid} ELSE {})
    ELSE IF hasActiveTestReport(session)
    THEN {<<"1">>, <<"x">>, <<"1", "3">>, <<"e", "v", "a", "n", "g", "e", "l", "i", "s", "m">>} \cup CancelWords
    ELSE IF hasActiveForm(form)
    THEN Answers(form.current_form_step) \cup WrongAnswers(form.current_form_step)
         \cup CancelWords
         \cup (IF form.current_form_step \in CommandSteps THEN CommandWords ELSE {})
    ELSE CommandWords \cup CommandsAsTyped \cup CancelWords

\* how the generation of a test report may end
Generations == {"empty", "pdf", "error"}

\* the outcomes of what handleMessage may await for the message
Awaitable(m, words, form, session) ==
    LET inGroup == m.remoteJid # UserJid
        inSession == ~inGroup /\ hasActiveTestReport(session)
        inForm == ~inGroup /\ ~inSession /\ hasActiveForm(form)
        dates == IF inForm /\ form.current_form_step = STEPS.DATE
                 THEN validateDate(words) ELSE {NotReparsed}
        saves == IF inForm /\ form.current_form_step = STEPS.CONFIRMATION
                 THEN BOOLEAN ELSE {FALSE}
        lookups == IF inGroup /\ isEvangelismReport(words) THEN BOOLEAN ELSE {FALSE}
        generations == IF inSession /\ session.step = "select_month"
                       THEN Generations ELSE {"empty"}
    IN  {Awaited(date, saveFails, lookupFails, insertFails, generated) :
            date \in dates, saveFails \in saves, lookupFails \in lookups,
            insertFails \in lookups, generated \in generations}

\* the sessions and the reports before the latest call of handleMessage
Before(form, session, rows) == [form |-> form, session |-> session, rows |-> rows]

ChatInit ==
    /\ messageText = <<>>
    /\ report = EmptyObject
    /\ validation = NotValidated
    /\ today = Date(2026, 3, 1)
    /\ tzWest = FALSE
    /\ dateInput = <<>> /\ normalized = Null /\ reparsed = NotReparsed
    /\ msg = NoMsg
    /\ reportsTable = <<>>
    /\ outbox = <<>>
    /\ handled = 0
    /\ NotAggregating
    /\ Resting
    /\ pc = "chatting"

\* a message arrives and handleMessage handles it
HandleMessage ==
    /\ pc = "chatting"
    /\ Len(reportsTable) < MaxSaved
    /\ \E m \in ChatKeys :
       \E words \in Offered(m, formState, testReportState) :
       \E awaited \in Awaitable(m, words, formState, testReportState) :
       \E out \in {handleMessage(m, words, formState, testReportState, reportsTable,
                                 awaited)} :
          /\ msg' = m
          /\ messageText' = words
          /\ before' = Before(formState, testReportState, reportsTable)
          /\ formState' = out.form
          /\ testReportState' = out.session
          /\ reportsTable' = out.rows
          /\ replies' = out.sent
          /\ routed' = out.handlers
    /\ UNCHANGED <<report, validation, envVars, dateVars, aggVars, postVars, deleteVars, monthlyVars, outbox, handled, pc>>

ChatNext == HandleMessage

ChatSpec == ChatInit /\ [][ChatNext]_vars

(***************************************************************************)
(* Reports of the form are posted to their groups: calls of                *)
(* postReportToGroup run from await to await, interleaved, and each        *)
(* awaited call may throw                                                  *)
(***************************************************************************)
\* the number of calls of postReportToGroup in a run, at most
MaxCalls == 2

\* the form data of a report for the assembly
FormDataFor(assemblyId) ==
    Put(Put(Put(EmptyObject, "reporter_phone", Str(UserJid)),
            "assembly_id", Num(assemblyId)),
        "location", Str(<<"C", "B", "D">>))

\* the ids postReportToGroup is called with: the report's and one of no report
PostedIds == {1, 2}

PostInit ==
    /\ messageText = <<>>
    /\ report = EmptyObject
    /\ validation = NotValidated
    /\ today = Date(2026, 3, 1)
    /\ tzWest = FALSE
    /\ dateInput = <<>> /\ normalized = Null /\ reparsed = NotReparsed
    /\ msg = NoMsg
    /\ \E a \in DOMAIN Assemblies :
          reportsTable = <<createReport(1, FormDataFor(Assemblies[a].id))>>
    /\ outbox = <<>>
    /\ handled = 0
    /\ NotAggregating
    /\ Resting
    /\ pc = "posting"

\* postReportToGroup(sock, reportId) is called and stands at its first await
StartPost ==
    /\ pc = "posting"
    /\ Len(calls) < MaxCalls
    /\ \E reportId \in PostedIds :
          calls' = Append(calls, Call("getReport", reportId, NoReport))
    /\ UNCHANGED <<parseVars, envVars, dateVars, groupVars, aggVars, chatVars, deleteVars, monthlyVars, pc>>

\* one effect of a step of a call on the table, the messages and the call
Took(i, s) ==
    /\ calls' = [calls EXCEPT ![i] = s.call]
    /\ reportsTable' = s.rows
    /\ outbox' = outbox \o s.sent
    /\ UNCHANGED <<parseVars, envVars, dateVars, aggVars, chatVars, deleteVars, monthlyVars, msg, handled, pc>>

\* an awaited call of an invocation settles, by returning or by throwing, and
\* the invocation runs to its next await
PostAwait ==
    /\ pc = "posting"
    /\ \E i \in DOMAIN calls, fails \in BOOLEAN :
          /\ calls[i].at \notin {"timer", "done"}
          /\ Took(i, postStep(calls[i], reportsTable, fails))

\* the timer of the retry fires and the retry reads the report
RetryTimer ==
    /\ pc = "posting"
    /\ \E i \in DOMAIN calls, fails \in BOOLEAN :
          /\ calls[i].at = "timer"
          /\ Took(i, postStep(calls[i], reportsTable, fails))

PostNext == StartPost \/ PostAwait \/ RetryTimer

PostSpec == PostInit /\ [][PostNext]_vars

(***************************************************************************)
(* The monthly run: the reports of the month before are generated, one per *)
(* assembly, and distributed to the groups                                 *)
(***************************************************************************)
\* a report of an assembly on a day
DatedRow(id, assemblyId, date) ==
    [id |-> id, assembly_id |-> assemblyId, activity_date |-> Str(date),
     location |-> Str(<<"C", "B", "D">>), activity_type |-> Str(<<"S", "t", "r", "e", "e", "t">>),
     preachers_team |-> Str(<<"G", "r", "a", "c", "e">>), message_summary |-> Str(<<"H", "o", "p", "e">>),
     saved |-> Num(1), healed |-> Num(0)]

\* the days of the reports: two of the month before, the last day of the
\* month before that, and the day of the run
ReportDays == {<<"2", "0", "2", "6", "-", "0", "2", "-", "0", "1">>, <<"2", "0", "2", "6", "-", "0", "2", "-", "2", "8">>, <<"2", "0", "2", "6", "-", "0", "1", "-", "3", "1">>, <<"2", "0", "2", "6", "-", "0", "3", "-", "0", "1">>}

\* the ids of the assemblies
AssemblyIds == {Assemblies[k].id : k \in DOMAIN Assemblies}

\* the reports tables of a month: up to two reports, each of some assembly
\* on some day
MonthlyTables ==
    {<<>>}
      \cup {<<DatedRow(1, a, d)>> : a \in AssemblyIds, d \in ReportDays}
      \cup {<<DatedRow(1, a1, <<"2", "0", "2", "6", "-", "0", "2", "-", "0", "1">>), DatedRow(2, a2, d)>> :
               a1 \in AssemblyIds, a2 \in AssemblyIds, d \in ReportDays}
      \cup {<<DatedRow(1, 1, <<"2", "0", "2", "6", "-", "0", "2", "-", "0", "1">>), DatedRow(2, 2, <<"2", "0", "2", "6", "-", "0", "2", "-", "2", "8">>),
              DatedRow(3, 3, <<"2", "0", "2", "6", "-", "0", "2", "-", "2", "8">>)>>}

\* the socket getSocket() returns: none yet, the open one, or the one of a
\* connection that has closed
Sockets == {"null", "open", "closed"}

\* the call that throws while the report of an assembly is sent
SendFailures == {"none", "generatePDFReport", "summary", "document"}

MonthlyInit ==
    /\ messageText = <<>>
    /\ report = EmptyObject
    /\ validation = NotValidated
    /\ today = Date(2026, 3, 1)
    /\ tzWest = FALSE
    /\ dateInput = <<>> /\ normalized = Null /\ reparsed = NotReparsed
    /\ msg = NoMsg
    /\ reportsTable \in MonthlyTables
    /\ outbox = <<>>
    /\ handled = 0
    /\ NotAggregating
    /\ Resting
    /\ pc = "scheduled"

\* generateAndDistributeMonthlyReport up to the return of
\* generateAssemblyReports; when getAllAssemblies throws there, the run ends
\* in its catch
GenerateAssemblyReports ==
    /\ pc = "scheduled"
    /\ \E listFails \in BOOLEAN, failing \in SUBSET AssemblyIds :
          /\ assemblyReports' =
                IF listFails THEN <<>>
                ELSE generateAssemblyReports(Assemblies, reportsTable, PreviousMonth, failing)
          /\ monthlyRun' = [monthlyRun EXCEPT !.generationFailed = failing,
                                              !.done = listFails]
          /\ pc' = IF listFails THEN "distributed" ELSE "generated"
    /\ UNCHANGED <<parseVars, envVars, dateVars, groupVars, aggVars, chatVars, postVars,
                   deleteVars>>

\* the rest of generateAndDistributeMonthlyReport
Distribute ==
    /\ pc = "generated"
    /\ \E socket \in Sockets, listFails \in BOOLEAN,
          failures \in [AssemblyIds -> SendFailures] :
          /\ outbox' = distribute(assemblyReports, socket, listFails, failures)
          /\ monthlyRun' = [monthlyRun EXCEPT
                               !.done = TRUE,
                               !.socket = socket,
                               !.failures = IF listFails THEN <<>> ELSE failures]
    /\ pc' = "distributed"
    /\ UNCHANGED <<parseVars, envVars, dateVars, aggVars, chatVars, postVars, deleteVars,
                   msg, reportsTable, handled, assemblyReports>>

MonthlyNext == GenerateAssemblyReports \/ Distribute

MonthlySpec == MonthlyInit /\ [][MonthlyNext]_vars

(***************************************************************************)
(* What the parser claims speak of, stated on the text itself              *)
(***************************************************************************)
SameLetter(c, d) ==
    \/ c = d
    \/ c \in UpperSet /\ LowerOf[c] = d
    \/ d \in UpperSet /\ LowerOf[d] = c

\* the message as the sender sees it: without the markup characters
Visible(text) == SelectSeq(text, LAMBDA c : c # "*" /\ c # "_" /\ c # "~")

\* the offsets just after a separator that closes an alias of the k-th field
\* starting at the 0-based offset p: alias, optional white space, ':' or '='
LabelEnds(text, k, p) ==
    {e \in (p + 1)..Len(text) :
        /\ text[e] \in {":", "="}
        /\ \E i \in DOMAIN FIELD_ALIASES[k].aliases :
              LET a == FIELD_ALIASES[k].aliases[i]
              IN  /\ p + Len(a) < e
                  /\ \A j \in 1..Len(a) : SameLetter(text[p + j], a[j])
                  /\ \A j \in (p + Len(a) + 1)..(e - 1) : IsSpace(text[j])}

LabelOffsets(text, k) == {p \in 0..(Len(text) - 1) : LabelEnds(text, k, p) # {}}

\* the offset of the first label of every field, -1 for a field without one
FirstLabels(text) ==
    [k \in DOMAIN FIELD_ALIASES |->
        IF LabelOffsets(text, k) = {} THEN -1 ELSE Min(LabelOffsets(text, k))]

Labelled(text) == {k \in DOMAIN FIELD_ALIASES : FirstLabels(text)[k] >= 0}

\* the text between the first label of the k-th field and the next first
\* label of any field, or the end of the text
SpanOf(text, firsts, k) ==
    LET p == firsts[k]
        later == {firsts[j] : j \in DOMAIN firsts} \cap ((p + 1)..Len(text))
        stop == IF later = {} THEN Len(text) ELSE Min(later)
    IN  SubSeq(text, Min(LabelEnds(text, k, p)) + 1, stop)

FieldIndex(f) == CHOOSE k \in DOMAIN FIELD_ALIASES : FIELD_ALIASES[k].field = f

\* the cleaned text of field f's span, <<>> when f has no label
SpanText(text, firsts, f) ==
    IF firsts[FieldIndex(f)] >= 0 THEN cleanValue(SpanOf(text, firsts, FieldIndex(f))) ELSE <<>>

\* C1: each matched field is assigned the (cleaned, converted) text that runs
\* from just after its first label's separator to the start of the next
\* field's first label in text order, or to the end of the text; a label
\* that occurs again later is no boundary. preachers_team is left to C5 when
\* its span is empty.
C1_ValueRunsToNextLabel ==
    pc = "parsed" =>
        LET text == Visible(messageText)
            firsts == FirstLabels(text)
        IN  \A k \in {j \in DOMAIN firsts : firsts[j] >= 0} :
                LET f == FIELD_ALIASES[k].field
                    value == cleanValue(SpanOf(text, firsts, k))
                IN  \/ f = "preachers_team" /\ value = <<>>
                    \/ /\ f \in DOMAIN report
                       /\ report[f] = convertValue(f, value)

\* C1 witness: two labels in the reverse of the table's order, one label
\* repeated, and the repetition kept inside a value
C1_Witness ==
    /\ pc = "parsed"
    /\ LET text == Visible(messageText)
           firsts == FirstLabels(text)
       IN  /\ \E j, k \in Labelled(text) : j < k /\ firsts[k] < firsts[j]
           /\ \E k \in Labelled(text) : Cardinality(LabelOffsets(text, k)) >= 2
    /\ "preachers_team" \in DOMAIN report
    /\ report["preachers_team"] = Str(<<"T", "e", "a", "m", ":">>)

\* C2 as stated: the fields present are exactly the labelled fields
C2_Original_ExactlyLabelledFields ==
    pc = "parsed" =>
        DOMAIN report = {FIELD_ALIASES[k].field : k \in Labelled(Visible(messageText))}

\* C2 amended: the fields present are exactly the fields with a label (an
\* alias in any letter case, optional white space, ':' or '=', in the text
\* without markup characters), together with preachers_team, which is always
\* present
C2_LabelledFieldsAndTeam ==
    pc = "parsed" =>
        DOMAIN report = {FIELD_ALIASES[k].field : k \in Labelled(Visible(messageText))}
                            \cup {"preachers_team"}

\* C2 witness: labels out of table order, a lower-case alias closed by '=',
\* and an alias with no separator, which is no label
C2_Witness ==
    /\ pc = "parsed"
    /\ messageText = <<"s", "a", "v", "e", "d", " ", "=">> \o <<"N", "a", "m", "e">> \o <<"D", "a", "t", "e", ":">>
    /\ DOMAIN report = {"saved", "activity_date", "preachers_team"}

\* C4 as stated: saved and healed, when present, are non-negative integers
C4_CountsNonNegative ==
    pc = "parsed" =>
        \A f \in {"saved", "healed"} \cap DOMAIN report :
            report[f].t = "number" /\ report[f].n >= 0

\* C5: preachers_team is never blank: the extracted team when there is one,
\* otherwise the extracted reporter_name, otherwise 'Not specified'
C5_TeamNeverBlank ==
    pc = "parsed" =>
        LET text == Visible(messageText)
            firsts == FirstLabels(text)
            team == SpanText(text, firsts, "preachers_team")
            name == SpanText(text, firsts, "reporter_name")
        IN  /\ "preachers_team" \in DOMAIN report
            /\ report["preachers_team"].t = "string"
            /\ trim(report["preachers_team"].s) # <<>>
            /\ report["preachers_team"].s =
                  IF team # <<>> THEN team
                  ELSE IF name # <<>> THEN name
                  ELSE <<"N", "o", "t", " ", "s", "p", "e", "c", "i", "f", "i", "e", "d">>

\* C5 witness: no team label, a reporter name: the team is the reporter
C5_Witness ==
    /\ pc = "parsed"
    /\ FieldIndex("preachers_team") \notin Labelled(Visible(messageText))
    /\ SpanText(Visible(messageText), FirstLabels(Visible(messageText)), "reporter_name") = <<"x">>
    /\ report["preachers_team"] = Str(<<"x">>)

\* C8 as stated: a Date label whose value the normalizer cannot parse is
\* reported as a date-format defect
C8_UnparsableDateIsFormatDefect ==
    (/\ pc = "validated"
     /\ SpanText(Visible(messageText), FirstLabels(Visible(messageText)), "activity_date") # <<>>
     /\ Get(report, "activity_date") = Null)
        => \E i \in DOMAIN validation.errors : validation.errors[i] = InvalidDateFormat

\* C3: the sample report parses to the stated values and validates
C3_SampleReportParsesAndValidates ==
    (pc \in {"parsed", "validated"} /\ messageText = SampleReport) =>
        /\ Get(report, "activity_date") = Str(<<"2", "0", "2", "6", "-", "0", "2", "-", "1", "0">>)
        /\ Get(report, "location") = Str(<<"S", "a", "k", "u", "b", "v", "a">>)
        /\ Get(report, "preachers_team") = Str(<<"B", "r", " ", "T", "a", "d", "i", "w", "a", " ", "a", "n", "d", " ", "S", "i", "s", "t", "e", "r", " ", "G", "r", "a", "c", "e">>)
        /\ Get(report, "saved") = Num(3)
        /\ Get(report, "healed") = Num(1)
        /\ pc = "validated" =>
              validation.valid /\ validation.errors = <<>> /\ ~validation.threw

\* C3 witness: the sample report has been parsed and validated
C3_Witness ==
    /\ pc = "validated"
    /\ messageText = SampleReport
    /\ validation.valid
    /\ Get(report, "activity_type") = Str(<<"S", "t", "r", "e", "e", "t", " ", "E", "v", "a", "n", "g", "e", "l", "i", "s", "m">>)

\* a required field that is absent (or null) or blank
AbsentOrBlank(rep, f) ==
    \/ f \notin DOMAIN rep
    \/ rep[f].t = "null"
    \/ rep[f].t = "string" /\ \A i \in DOMAIN rep[f].s : IsSpace(rep[f].s[i])

DefectsNaming(errors, name) == {i \in DOMAIN errors : errors[i].name = name}

\* C9: one defect for each required field that is absent or blank, all of
\* them collected, none for a field that is present and well-formed; valid
\* exactly when there is no defect; a report missing only message_summary
\* has the single defect naming 'Message Summary'
C9_OneDefectPerMissingField ==
    pc \in {"validated", "checked"} =>
        LET errors == validation.errors
            missing == {k \in DOMAIN requiredFields : AbsentOrBlank(report, requiredFields[k].field)}
            date == Get(report, "activity_date")
            badDate == date.t = "string" /\ date.s # <<>> /\ ~MatchesCanonicalDate(date.s)
        IN  /\ ~validation.threw
            /\ \A k \in DOMAIN requiredFields :
                  /\ Cardinality(DefectsNaming(errors, requiredFields[k].name))
                        = IF k \in missing THEN 1 ELSE 0
                  /\ \A i \in DefectsNaming(errors, requiredFields[k].name) :
                        errors[i].text \in {"Missing required field: ", "Empty required field: "}
            /\ Len(errors) = Cardinality(missing) + (IF badDate THEN 1 ELSE 0)
            /\ validation.valid <=> errors = <<>>
            /\ (missing = {4} /\ ~badDate) =>
                  /\ ~validation.valid
                  /\ Len(errors) = 1
                  /\ errors[1].name = "Message Summary"
                  /\ "message_summary" \notin DOMAIN report =>
                        errors = <<Defect("Missing required field: ", "Message Summary")>>

\* C9 witness: a parsed message with all four required fields missing has
\* four defects
C9_Witness ==
    /\ pc = "validated"
    /\ messageText = <<"s", "a", "v", "e", "d", " ", "=">> \o <<"-", "5">>
    /\ Len(validation.errors) = 4
    /\ ~validation.valid

(***************************************************************************)
(* What the date claims speak of, stated on the date string itself         *)
(***************************************************************************)
\* the number a non-empty string of decimal digits spells, -1 for any other
RECURSIVE Numeral(_)
Numeral(s) ==
    IF s = <<>> \/ s[Len(s)] \notin DigitSet THEN -1
    ELSE LET last == (CHOOSE i \in 1..10 : Digits[i] = s[Len(s)]) - 1
         IN  IF Len(s) = 1 THEN last
             ELSE IF Numeral(SubSeq(s, 1, Len(s) - 1)) < 0 THEN -1
             ELSE 10 * Numeral(SubSeq(s, 1, Len(s) - 1)) + last

\* <<D, M, Y>> of a string D/M/Y (or with - or . for /); <<-1, -1, -1>> when
\* the string does not have exactly three components
DayMonthYear(s) ==
    LET cut == {i \in DOMAIN s : s[i] \in {"/", "-", "."}}
    IN  IF Cardinality(cut) # 2 THEN <<-1, -1, -1>>
        ELSE <<Numeral(SubSeq(s, 1, Min(cut) - 1)),
               Numeral(SubSeq(s, Min(cut) + 1, Max(cut) - 1)),
               Numeral(SubSeq(s, Max(cut) + 1, Len(s)))>>

InDateRange(p) == p[1] \in 1..31 /\ p[2] \in 1..12 /\ p[3] >= 2000

TwoDigits(n) == <<Digits[(n \div 10) + 1], Digits[(n % 10) + 1]>>

RECURSIVE Decimal(_)
Decimal(n) == IF n < 10 THEN <<Digits[n + 1]>> ELSE Decimal(n \div 10) \o <<Digits[(n % 10) + 1]>>

\* Y-MM-DD
Canonical(p) == Decimal(p[3]) \o <<"-">> \o TwoDigits(p[2]) \o <<"-">> \o TwoDigits(p[1])

\* four digits, two digits, two digits
IsCanonicalForm(s) ==
    /\ Len(s) = 10
    /\ s[5] = "-" /\ s[8] = "-"
    /\ Numeral(SubSeq(s, 1, 4)) >= 0 /\ Numeral(SubSeq(s, 6, 7)) >= 0
    /\ Numeral(SubSeq(s, 9, 10)) >= 0

\* C6 as stated: D/M/Y in range is normalized to Y-MM-DD, and the form
\* validator reads the same calendar date back from it
C6_Original_RoundTrip ==
    InDateRange(DayMonthYear(dateInput)) =>
        /\ pc \in {"normalized", "reparsed"} =>
              normalized = Str(Canonical(DayMonthYear(dateInput)))
        /\ pc = "reparsed" =>
              reparsed = DateOk(Canonical(DayMonthYear(dateInput)))

\* C7 as stated: the normalizer returns null or a string of the form
\* YYYY-MM-DD, and non-null only for today, yesterday or three components in
\* range
C7_NullOrCanonical ==
    pc \in {"normalized", "reparsed"} =>
        \/ normalized = Null
        \/ /\ normalized.t = "string"
           /\ IsCanonicalForm(normalized.s)
           /\ \/ toLowerCase(trim(dateInput)) \in {<<"t", "o", "d", "a", "y">>, <<"y", "e", "s", "t", "e", "r", "d", "a", "y">>}
              \/ InDateRange(DayMonthYear(trim(dateInput)))


\* D/M/Y names a day of the calendar with a four-digit year
IsCalendarDay(p) ==
    /\ InDateRange(p) /\ p[3] <= 9999
    /\ p[1] <= DaysInMonth(p[3], p[2])

\* the day D/M/Y is later than the current day
IsFuture(p) == DateBefore(today, Date(p[3], p[2], p[1]))

\* a report of the group path with the date given, all other fields filled
ReportDated(date) ==
    MakeReport(date, Str(<<"x">>), Str(<<"x">>), Str(<<"x">>), Num(3), Num(0))

\* the form validator's rejection of a date later than the current day
RejectsFutureDays ==
    (pc = "reparsed" /\ IsCalendarDay(DayMonthYear(dateInput))
                     /\ IsFuture(DayMonthYear(dateInput)))
        => reparsed = DateError("Activity date cannot be in the future.")

\* the form validator's acceptance of YYYY-MM-DD for a day that is not later
\* than the current day
AcceptsNativeDays ==
    (pc = "reparsed" /\ IsCalendarDay(DayMonthYear(dateInput))
                     /\ ~IsFuture(DayMonthYear(dateInput)))
        => reparsed.valid

\* the group path's handling of a day later than the current day: made
\* canonical, and passed by validateParsedReport
GroupPathTakesFutureDays ==
    (pc \in {"normalized", "reparsed"} /\ IsCalendarDay(DayMonthYear(dateInput))
                                       /\ IsFuture(DayMonthYear(dateInput)))
        => /\ normalized = Str(Canonical(DayMonthYear(dateInput)))
           /\ validateParsedReport(ReportDated(normalized)).valid

\* C20: the form validator rejects every day later than the current day
\* with 'Activity date cannot be in the future.' and accepts YYYY-MM-DD;
\* the group path makes a future D/M/Y canonical and validateParsedReport
\* passes it
C20_FutureRejectedInFormOnly ==
    RejectsFutureDays /\ AcceptsNativeDays /\ GroupPathTakesFutureDays
(***************************************************************************)
(* What the handler claim speaks of                                        *)
(***************************************************************************)
\* the message opens with the words EVANGELISM REPORT, in any letter case,
\* markup characters aside
OpensAsReport(text) ==
    LET shown == trim(Visible(text))
        words == <<"E", "V", "A", "N", "G", "E", "L", "I", "S", "M", " ", "R", "E", "P", "O", "R", "T">>
    IN  /\ Len(shown) >= Len(words)
        /\ \A i \in DOMAIN words : SameLetter(shown[i], words[i])

MappedGroup(groupJid) ==
    \E k \in DOMAIN Assemblies : Assemblies[k].whatsapp_group_id = groupJid

\* C10: a handled message whose validation result is not valid stores
\* nothing and is answered with one message that lists every defect as a
\* bullet; a row is stored only for an evangelism report, validated as
\* valid, in a group mapped to an assembly
C10_InvalidNeverStoredAllDefectsSent ==
    [][(pc = "handling" /\ pc' = "idle") =>
          /\ (~msg.fromMe /\ OpensAsReport(messageText) /\ validation'.done
                 /\ ~validation'.valid) =>
                /\ reportsTable' = reportsTable
                /\ Len(outbox') = Len(outbox) + 1
                /\ outbox'[Len(outbox')].to = msg.remoteJid
                /\ outbox'[Len(outbox')].kind = "Evangelism Report Error"
                /\ Len(outbox'[Len(outbox')].lines) = Len(validation'.errors)
                /\ \A i \in DOMAIN validation'.errors :
                      outbox'[Len(outbox')].lines[i] = Bullet(validation'.errors[i])
          /\ reportsTable' # reportsTable =>
                /\ Len(reportsTable') = Len(reportsTable) + 1
                /\ SubSeq(reportsTable', 1, Len(reportsTable)) = reportsTable
                /\ OpensAsReport(messageText)
                /\ ~msg.fromMe
                /\ validation'.done /\ validation'.valid
                /\ MappedGroup(msg.remoteJid)
                /\ \E k \in DOMAIN Assemblies :
                      /\ Assemblies[k].whatsapp_group_id = msg.remoteJid
                      /\ reportsTable'[Len(reportsTable')].assembly_id = Assemblies[k].id
      ]_vars

\* C10 witness: a valid report was stored, then a report with three defects
\* was answered with its three bullets and not stored
C10_Witness ==
    /\ pc = "idle"
    /\ handled = 2
    /\ Len(reportsTable) = 1
    /\ Len(outbox) = 2
    /\ outbox[2].kind = "Evangelism Report Error"
    /\ Len(outbox[2].lines) = 3
    /\ validation.done /\ ~validation.valid

(***************************************************************************)
(* What the aggregation claims speak of, stated on the fetched records     *)
(***************************************************************************)
\* a value that is a string with at least one character
IsText(v) == v.t = "string" /\ v.s # <<>>

\* the location and activity_type strings of the batch, in input order
InputLocations == strings(SelectSeq(mapField(batch, "location"), IsText))
InputTypes == strings(SelectSeq(mapField(batch, "activity_type"), IsText))

\* the names of the batch, in input order: each preachers_team split on
\* commas and on the word 'and', the pieces trimmed, the empty ones dropped
InputNames == strings(SelectSeq(flatMapTeams(batch), IsText))

\* the cleaned display form of an input, the key it is filed under, and
\* whether it is filed at all, list by list
CleanType(item) == trim(item)
TypeKey(item) == trim(toLowerCase(item))
KeptType(cleaned) == TRUE
KeptLocation(cleaned) == Len(cleaned) >= 2
KeptName(cleaned) == Len(cleaned) >= 3 /\ ~includes(JUNK_NAMES, toLowerCase(cleaned))

\* no two entries of the list have the same key
UniqueUnderKey(list, Key(_)) ==
    \A i, j \in DOMAIN list : i # j => Key(list[i]) # Key(list[j])

\* the inputs that are filed under the key of the entry, by their place
FiledUnder(inputs, entry, Clean(_), Key(_), Kept(_)) ==
    {j \in DOMAIN inputs : Kept(Clean(inputs[j])) /\ Key(Clean(inputs[j])) = Key(entry)}

\* the entry is the display form of the first input filed under its key
IsFirstSeen(inputs, entry, Clean(_), Key(_), Kept(_)) ==
    /\ FiledUnder(inputs, entry, Clean, Key, Kept) # {}
    /\ entry = Clean(inputs[Min(FiledUnder(inputs, entry, Clean, Key, Kept))])

Generated == pc \in {"generated", "refed", "reordered"} /\ ~assemblyReport.threw

\* C11: the entries of each list are unique under the list's key, and each
\* entry is the display form (the cleaned value, its letter case kept) of
\* the first input, in input order, that produced its key
C11_UniqueFirstSeen ==
    Generated =>
        /\ UniqueUnderKey(assemblyReport.locations, locationKey)
        /\ UniqueUnderKey(assemblyReport.labourers, personKey)
        /\ UniqueUnderKey(assemblyReport.activityTypes, TypeKey)
        /\ \A i \in DOMAIN assemblyReport.locations :
              IsFirstSeen(InputLocations, assemblyReport.locations[i],
                             cleanLocation, locationKey, KeptLocation)
        /\ \A i \in DOMAIN assemblyReport.labourers :
              IsFirstSeen(InputNames, assemblyReport.labourers[i],
                             normalizePersonName, personKey, KeptName)
        /\ \A i \in DOMAIN assemblyReport.activityTypes :
              IsFirstSeen(InputTypes, assemblyReport.activityTypes[i],
                             CleanType, TypeKey, KeptType)

\* C11 witness: two records whose places, persons and activity types are
\* variants of one another, the second variant absorbed by the first
C11_Witness ==
    /\ pc = "generated"
    /\ Len(batch) = 2
    /\ batch[1].location = Str(<<"s", "a", "k", "u", "b", "v", "a">>) /\ batch[2].location = Str(<<"S", "a", "k", "u", "b", "v", "a", ".">>)
    /\ assemblyReport.locations = <<<<"s", "a", "k", "u", "b", "v", "a">>>>
    /\ assemblyReport.activityTypes = <<<<"s", "t", "r", "e", "e", "t">>>>
    /\ Len(InputNames) = 4
    /\ assemblyReport.labourers = <<<<"B", "r", " ", "T", "a", "d", "i", "w", "a">>, <<"S", "i", "s", "t", "e", "r", " ", "G", "r", "a", "c", "e">>>>


\* the honorific aliases C12 names, each with the form it stands for
Aliases ==
    { [long |-> <<"b", "r", "o", "t", "h", "e", "r", " ">>, short |-> <<"b", "r", " ">>],
      [long |-> <<"s", "i", "s", "t", "e", "r", " ">>, short |-> <<"s", "r", " ">>],
      [long |-> <<"m", "r", ".", " ">>, short |-> <<"m", "r", " ">>],
      [long |-> <<"m", "r", "s", ".", " ">>, short |-> <<"m", "r", "s", " ">>] }

\* the name with the long form of its honorific replaced by the short one
Unalias(name) ==
    IF \E a \in Aliases : startsWith(name, a.long)
    THEN LET a == CHOOSE a \in Aliases : startsWith(name, a.long)
         IN  a.short \o SubSeq(name, Len(a.long) + 1, Len(name))
    ELSE name

\* the name without the characters . , ; : ! / that end it
RECURSIVE Unpunctuated(_)
Unpunctuated(name) ==
    IF name # <<>> /\ name[Len(name)] \in {".", ",", ";", ":", "!", "/"}
    THEN Unpunctuated(SubSeq(name, 1, Len(name) - 1))
    ELSE name

\* what is left of a name when honorific alias, closing punctuation and
\* letter case are put aside
Plain(name) == Unalias(Unpunctuated(toLowerCase(name)))

\* the names differ only by honorific alias, closing punctuation or case
SameName(names) == \A i, j \in DOMAIN names : Plain(names[i]) = Plain(names[j])

C13_RefeedKeepsCount ==
    (pc = "refed" /\ refed.done) =>
        /\ Len(refed.locations) = Len(assemblyReport.locations)
        /\ Len(refed.labourers) = Len(assemblyReport.labourers)

\* the two records of the batch have the locations 'Sakubva.' and 'sakubva',
\* in either order
SakubvaTwice ==
    /\ Len(batch) = 2
    /\ {batch[1].location, batch[2].location} = {Str(<<"S", "a", "k", "u", "b", "v", "a", ".">>), Str(<<"s", "a", "k", "u", "b", "v", "a">>)}

\* C14 as stated: the two locations give the single entry that is the first
\* of them as typed, 'Sakubva.' or 'sakubva'
C14_Original_FirstAsTyped ==
    (Generated /\ SakubvaTwice) => assemblyReport.locations = <<batch[1].location.s>>

\* C14 amended: the two locations give a single entry, the first of them
\* without its closing punctuation: 'Sakubva' when 'Sakubva.' comes first,
\* 'sakubva' when 'sakubva' comes first
C14_FirstWithoutPunctuation ==
    (Generated /\ SakubvaTwice) =>
        assemblyReport.locations =
            <<IF batch[1].location = Str(<<"S", "a", "k", "u", "b", "v", "a", ".">>) THEN <<"S", "a", "k", "u", "b", "v", "a">> ELSE <<"s", "a", "k", "u", "b", "v", "a">>>>

\* C14 witness: 'Sakubva.' then 'sakubva', listed as 'Sakubva'
C14_Witness ==
    /\ pc = "generated"
    /\ SakubvaTwice
    /\ batch[1].location = Str(<<"S", "a", "k", "u", "b", "v", "a", ".">>)
    /\ assemblyReport.locations = <<<<"S", "a", "k", "u", "b", "v", "a">>>>

\* the placeholder tokens C15 names
Placeholders == {<<"n", "o", "t", " ", "s", "p", "e", "c", "i", "f", "i", "e", "d">>, <<"u", "n", "k", "n", "o", "w", "n">>, <<"n", "/", "a">>, <<"n", "o", "n", "e">>, <<"-">>, <<>>}

\* the pieces of every preachers_team of the batch, split on commas and on
\* the word 'and', are placeholders in some letter case
OnlyPlaceholders ==
    /\ \E i \in DOMAIN batch : batch[i].preachers_team.t = "string"
    /\ \A i \in DOMAIN flatMapTeams(batch) :
          toLowerCase(flatMapTeams(batch)[i].s) \in Placeholders

\* C15: a batch whose teams hold only placeholder tokens, in any letter
\* case, has an empty labourers list
C15_PlaceholdersGiveNoLabourers ==
    (Generated /\ OnlyPlaceholders) => assemblyReport.labourers = <<>>

\* C15 witness: 'Not specified' and 'N/A, unknown AND -,,NONE' give no labourer
C15_Witness ==
    /\ pc = "generated"
    /\ Len(batch) = 2
    /\ batch[1].preachers_team = Str(<<"N", "o", "t", " ", "s", "p", "e", "c", "i", "f", "i", "e", "d">>)
    /\ batch[2].preachers_team = Str(<<"N", "/", "A", ",", " ", "u", "n", "k", "n", "o", "w", "n", " ", "A", "N", "D", " ", "-", ",", ",", "N", "O", "N", "E">>)
    /\ Len(flatMapTeams(batch)) = 6
    /\ OnlyPlaceholders
    /\ assemblyReport.labourers = <<>>

\* the keys of the entries of a list
KeysOf(list, Key(_)) == {Key(list[i]) : i \in DOMAIN list}

\* the same records were aggregated in two orders
Reordered == pc = "reordered" /\ ~assemblyReport.threw /\ ~reordered.threw

SameTotals ==
    /\ reordered.totalOutreaches = assemblyReport.totalOutreaches
    /\ reordered.totalSaved = assemblyReport.totalSaved
    /\ reordered.totalHealed = assemblyReport.totalHealed

\* C16 as stated: the records in another order give the same totals and the
\* same locations, labourers and activityTypes lists
C16_Original_SameListsInAnyOrder ==
    Reordered =>
        /\ SameTotals
        /\ reordered.locations = assemblyReport.locations
        /\ reordered.labourers = assemblyReport.labourers
        /\ reordered.activityTypes = assemblyReport.activityTypes

\* C16 amended: the records in another order give the same totals and lists
\* with as many entries under the same keys; which variant of a key is
\* displayed depends on the order
C16_SameTotalsAndKeysInAnyOrder ==
    Reordered =>
        /\ SameTotals
        /\ Len(reordered.locations) = Len(assemblyReport.locations)
        /\ Len(reordered.labourers) = Len(assemblyReport.labourers)
        /\ Len(reordered.activityTypes) = Len(assemblyReport.activityTypes)
        /\ KeysOf(reordered.locations, locationKey)
              = KeysOf(assemblyReport.locations, locationKey)
        /\ KeysOf(reordered.labourers, personKey)
              = KeysOf(assemblyReport.labourers, personKey)
        /\ KeysOf(reordered.activityTypes, TypeKey)
              = KeysOf(assemblyReport.activityTypes, TypeKey)

\* C16 witness: two records with different counts aggregated in both
\* orders, the totals equal and the displayed variant of the place not
C16_Witness ==
    /\ Reordered
    /\ Len(batch) = 2
    /\ batch[1].saved # batch[2].saved
    /\ assemblyReport.totalSaved = 3
    /\ assemblyReport.locations = <<<<"S", "a", "k", "u", "b", "v", "a">>>>
    /\ reordered.locations = <<<<"s", "a", "k", "u", "b", "v", "a">>>>

\* a comes before b in lexicographic order, or is b: at the first place
\* where they differ a has the smaller code unit, or a is a prefix of b
Precedes(a, b) ==
    \/ /\ Len(a) <= Len(b)
       /\ \A i \in 1..Len(a) : a[i] = b[i]
    \/ \E k \in 1..Min({Len(a), Len(b)}) :
          /\ \A i \in 1..(k - 1) : a[i] = b[i]
          /\ charCodeAt(a[k]) < charCodeAt(b[k])

Ascending(list) == \A i, j \in DOMAIN list : i < j => Precedes(list[i], list[j])

\* C17: the locations, labourers and activityTypes of a report are in
\* ascending lexicographic order of their display values
C17_ListsAscending ==
    Generated =>
        /\ Ascending(assemblyReport.locations)
        /\ Ascending(assemblyReport.labourers)
        /\ Ascending(assemblyReport.activityTypes)

\* C17 witness: 'sakubva' seen before 'Avenues' and listed after it
C17_Witness ==
    /\ pc = "generated"
    /\ Len(batch) = 2
    /\ batch[1].location = Str(<<"s", "a", "k", "u", "b", "v", "a">>)
    /\ batch[2].location = Str(<<"A", "v", "e", "n", "u", "e", "s">>)
    /\ assemblyReport.locations = <<<<"A", "v", "e", "n", "u", "e", "s">>, <<"s", "a", "k", "u", "b", "v", "a">>>>
    /\ assemblyReport.labourers = <<<<"S", "i", "s", "t", "e", "r", " ", "G", "r", "a", "c", "e">>, <<"n", "o", "n", "e", ".">>>>

\* the record has null in one of the fields the aggregation reads
HasNull(r) ==
    \E f \in {"location", "preachers_team", "activity_type", "saved", "healed"} :
        r[f] = Null

\* the sum of a count over the records, null counted as 0
RECURSIVE CountOver(_, _)
CountOver(records, field) ==
    IF records = <<>> THEN 0
    ELSE (IF Head(records)[field].t = "number" THEN Head(records)[field].n ELSE 0)
            + CountOver(Tail(records), field)

\* C18: a batch with a record that has null for its location, team,
\* activity type or counts is aggregated without failure: every record
\* counts in totalOutreaches, null counts add 0 to the totals, and the lists
\* are those of the values that are not null
C18_NullsLeftOut ==
    (/\ pc \in {"generated", "refed", "reordered"}
     /\ \E i \in DOMAIN batch : HasNull(batch[i]))
        => /\ assemblyReport.done /\ ~assemblyReport.threw
           /\ assemblyReport.totalOutreaches = Len(batch)
           /\ assemblyReport.totalSaved = CountOver(batch, "saved")
           /\ assemblyReport.totalHealed = CountOver(batch, "healed")
           /\ assemblyReport.locations = deduplicateLocations(InputLocations)
           /\ assemblyReport.labourers = deduplicateLabourers(InputNames)
           /\ assemblyReport.activityTypes = deduplicateList(InputTypes)

\* C18 witness: a record of nulls before a record with values; both count
\* as outreaches, the lists and the totals are those of the second
C18_Witness ==
    /\ pc = "generated"
    /\ Len(batch) = 2
    /\ \A f \in DOMAIN batch[1] : batch[1][f] = Null
    /\ batch[2].location = Str(<<"S", "a", "k", "u", "b", "v", "a", ".">>)
    /\ ~assemblyReport.threw
    /\ assemblyReport.totalOutreaches = 2
    /\ assemblyReport.totalSaved = 3 /\ assemblyReport.totalHealed = 1
    /\ assemblyReport.locations = <<<<"S", "a", "k", "u", "b", "v", "a">>>>
    /\ assemblyReport.labourers = <<<<"B", "r", " ", "T", "a", "d", "i", "w", "a">>>>
    /\ assemblyReport.activityTypes = <<<<"S", "t", "r", "e", "e", "t">>>>

\* the collaborator is absent or its call fails: no API key, the request
\* throws, or the completion has no content to parse
NoNarrativeFromCollaborator ==
    ~collaborator.apiKey \/ collaborator.fails \/ ~collaborator.hasContent

\* the three texts of the report are the fallback texts built from it
FallbackTexts ==
    /\ assemblyReport.narrative.kind = "fallback narrative"
    /\ assemblyReport.narrative.period = Period
    /\ assemblyReport.narrative.assemblyName = Assemblies[1].name
    /\ assemblyReport.narrative.places =
          (IF assemblyReport.locations = <<>> THEN <<"v", "a", "r", "i", "o", "u", "s", " ", "l", "o", "c", "a", "t", "i", "o", "n", "s">>
           ELSE join(assemblyReport.locations))
    /\ assemblyReport.messageEmphasis.set
    /\ Len(assemblyReport.messageEmphasis.bullets) = 5
    /\ assemblyReport.conclusion.kind = "fallback conclusion"
    /\ assemblyReport.conclusion.period = Period
    /\ assemblyReport.conclusion.assemblyName = Assemblies[1].name

\* C19: however the narrative collaborator ends, the report is returned
\* with narrative, messageEmphasis and conclusion set; they are the fallback
\* texts when the key is absent or the call fails, and the failure does not
\* reach the caller
C19_NarrativeAlwaysSet ==
    pc = "generated" =>
        /\ assemblyReport.done /\ ~assemblyReport.threw
        /\ assemblyReport.narrative.kind # "unset"
        /\ assemblyReport.messageEmphasis.set
        /\ assemblyReport.conclusion.kind # "unset"
        /\ NoNarrativeFromCollaborator => FallbackTexts
        /\ ~NoNarrativeFromCollaborator =>
              /\ assemblyReport.narrative = Written(collaborator.response.narrative)
              /\ assemblyReport.conclusion = Written(collaborator.response.conclusion)

\* C19 witness: the request to the collaborator throws and the report
\* carries the fallback texts about Sakubva
C19_Witness ==
    /\ pc = "generated"
    /\ collaborator.apiKey /\ collaborator.fails
    /\ ~assemblyReport.threw
    /\ FallbackTexts
    /\ assemblyReport.narrative.places = <<"S", "a", "k", "u", "b", "v", "a">>

\* what generateLocationPlot returned to the call that made the report
PlotReturned == generateLocationPlot(assemblyReport.locations, mapFails).path

\* C30: the mapImagePath of a report returned by generateAssemblyReport is
\* non-null only when the aggregate has more than one unique location and
\* generateLocationPlot returned a path; when the plot fails or finds no
\* coordinates, mapImagePath is null.
C30_MapPathOnlyWhenPlotted ==
    (assemblyReport.done /\ ~assemblyReport.threw) =>
       /\ assemblyReport.mapImagePath # "null" =>
             Len(assemblyReport.locations) > 1 /\ PlotReturned # "null"
       /\ PlotReturned = "null" => assemblyReport.mapImagePath = "null"

\* what does hold: mapImagePath is set exactly when the aggregate has more
\* than one unique location, whatever became of the plot
MapPathWheneverSeveralLocations ==
    (assemblyReport.done /\ ~assemblyReport.threw) =>
       (assemblyReport.mapImagePath # "null" <=> Len(assemblyReport.locations) > 1)

\* a report has a map path although none of its locations has coordinates
MapPathWithoutPlot ==
    /\ assemblyReport.done /\ ~assemblyReport.threw
    /\ ~mapFails
    /\ assemblyReport.locations = << <<"A", "v", "e", "n", "u", "e", "s">>, <<"M", "b", "a", "r", "e">> >>
    /\ assemblyReport.mapImagePath # "null"

(***************************************************************************)
(* What the claims about private chats speak of, stated on the latest call *)
(* of handleMessage                                                        *)
(***************************************************************************)
\* the latest message came in the user's private chat
PrivateHandled == msg.remoteJid = UserJid

\* the user had neither a form nor a test-report session when it came
NoSessionBefore == ~hasActiveForm(before.form) /\ ~hasActiveTestReport(before.session)

\* the user's form stands at the step
FormAt(form, step) == hasActiveForm(form) /\ form.current_form_step = step

\* the word 'evangelism', in any letter case and with white space around it,
\* starts a form at the assembly step
EvangelismStartsForm ==
    (PrivateHandled /\ NoSessionBefore /\ toLowerCase(trim(messageText)) = <<"e", "v", "a", "n", "g", "e", "l", "i", "s", "m">>)
        => FormAt(formState, STEPS.ASSEMBLY)

\* C21: when a user with no active form and no active test-report session
\* sends the configured wake phrase '!evangelism' in a private chat, the
\* user's stored form state becomes the assembly-selection step.
C21_WakePhraseStartsForm ==
    (PrivateHandled /\ NoSessionBefore /\ messageText = wakePhrase)
        => FormAt(formState, STEPS.ASSEMBLY)

\* the user had a form when the latest message came, in a private chat
FormBefore == PrivateHandled /\ hasActiveForm(before.form)

\* C22: at every step of an active report form, the message 'cancel' (any
\* letter case, white space around it ignored) clears the user's stored form
\* state, and no report is created from the data entered so far.
C22_CancelClearsForm ==
    (FormBefore /\ messageText \in CancelWords)
        => /\ formState = NoFormState
           /\ reportsTable = before.rows

\* ' Cancel ' came at the confirmation step, after every question was
\* answered; the form is gone and there is no report
C22_Witness ==
    /\ FormAt(before.form, STEPS.CONFIRMATION)
    /\ PrivateHandled
    /\ messageText = <<" ", "C", "a", "n", "c", "e", "l", " ">>
    /\ "reporter_name" \in DOMAIN before.form.form_data
    /\ formState = NoFormState
    /\ reportsTable = <<>>

\* 'yes' and 'no' as the users type them at the confirmation step
YesWords == {<<"y", "e", "s">>, <<" ", "Y", " ">>}
NoWords == {<<"n", "o">>}

\* the confirmation step took the latest message
ConfirmationBefore == PrivateHandled /\ FormAt(before.form, STEPS.CONFIRMATION)

\* the row is made of the data of the form
MadeOf(row, data) ==
    /\ row.source = "form"
    /\ row.assembly_id = data["assembly_id"].n
    /\ row.activity_date = data["activity_date"]
    /\ row.location = data["location"]
    /\ row.activity_type = data["activity_type"]
    /\ row.preachers_team = data["preachers_team"]
    /\ row.message_summary = data["message_summary"]
    /\ row.response_moments = data["response_moments"]
    /\ row.saved = data["converts"]
    /\ row.healed = data["sick_prayed_for"]
    /\ row.reporter_name = data["reporter_name"]
    /\ row.reporter_phone = Str(UserJid)

\* the messages of the latest call that went to a group
GroupPosts == SelectSeq(replies, LAMBDA r : r.to # UserJid)

\* the group of the assembly the row belongs to; <<>> when it has none
GroupOf(row) ==
    Assemblies[CHOOSE a \in DOMAIN Assemblies : Assemblies[a].id = row.assembly_id]
        .whatsapp_group_id

\* the save went through: one more row, the last one
SavedOne == Len(reportsTable) = Len(before.rows) + 1

\* the save failed: the user is told so and the table is as it was
SaveFailed ==
    /\ reportsTable = before.rows
    /\ replies = <<textTo(UserJid, "Error saving report.")>>

\* the halves of C23 that do not speak of the group: 'yes' saves exactly one
\* report made of the form's data unless the save fails, 'no' saves none, and
\* both leave the user without a form
YesSavesOnce ==
    /\ (ConfirmationBefore /\ messageText \in YesWords)
          => /\ formState = NoFormState
             /\ \/ SaveFailed
                \/ /\ SavedOne
                   /\ SubSeq(reportsTable, 1, Len(before.rows)) = before.rows
                   /\ MadeOf(reportsTable[Len(reportsTable)], before.form.form_data)
                   /\ replies[1] = textTo(UserJid, "Report submitted successfully!")
    /\ (ConfirmationBefore /\ messageText \in NoWords)
          => /\ formState = NoFormState
             /\ reportsTable = before.rows

OtherNumber == CHOOSE n \in DOMAIN activityTypes : activityTypes[n] = <<"O", "t", "h", "e", "r">>

\* the latest message picked 'Other' from the list of activity types
ChoseOther == trim(messageText) = toString(OtherNumber)

\* the step that comes after a step in a form, given the choice of 'Other'
StepAfter(step, other) ==
    IF step = STEPS.ACTIVITY_TYPE
    THEN IF other THEN STEPS.CUSTOM_ACTIVITY_TYPE ELSE STEPS.PREACHERS_TEAM
    ELSE step + 1

\* the field of the form data in which a step stores its answer
FieldOf(step) ==
    CASE step = STEPS.ASSEMBLY -> "assembly_id"
      [] step = STEPS.DATE -> "activity_date"
      [] step = STEPS.LOCATION -> "location"
      [] step = STEPS.ACTIVITY_TYPE -> "activity_type"
      [] step = STEPS.CUSTOM_ACTIVITY_TYPE -> "activity_type"
      [] step = STEPS.PREACHERS_TEAM -> "preachers_team"
      [] step = STEPS.MESSAGE_SUMMARY -> "message_summary"
      [] step = STEPS.RESPONSE_MOMENTS -> "response_moments"
      [] step = STEPS.CONVERTS -> "converts"
      [] step = STEPS.SICK_PRAYED_FOR -> "sick_prayed_for"
      [] OTHER -> "reporter_name"

\* the steps a form at the step has behind it; the custom type is asked only
\* after 'Other', and at that step the type itself is still to come
StepsBehind(form) ==
    LET step == form.current_form_step
    IN  {s \in 0..(step - 1) :
            /\ s # STEPS.CUSTOM_ACTIVITY_TYPE
            /\ ~(s = STEPS.ACTIVITY_TYPE /\ step = STEPS.CUSTOM_ACTIVITY_TYPE)}

\* the value is one a validator of the step lets through
ValidatedFor(step, value) ==
    CASE step = STEPS.ASSEMBLY ->
           value.t = "number" /\ \E a \in DOMAIN Assemblies : Assemblies[a].id = value.n
      [] step = STEPS.DATE -> value.t = "string" /\ IsCanonicalForm(value.s)
      [] step \in {STEPS.CONVERTS, STEPS.SICK_PRAYED_FOR} ->
           value.t = "number" /\ value.n >= 0
      [] step = STEPS.RESPONSE_MOMENTS ->
           value = Null \/ (value.t = "string" /\ Len(value.s) <= 1000)
      [] step = STEPS.MESSAGE_SUMMARY ->
           value.t = "string" /\ Len(value.s) >= 10 /\ value.s = trim(value.s)
      [] OTHER -> value.t = "string" /\ Len(value.s) >= 2 /\ value.s = trim(value.s)

\* every step behind the form has stored its validated value
StoredSoFar(form) ==
    \A s \in StepsBehind(form) :
        /\ FieldOf(s) \in DOMAIN form.form_data
        /\ ValidatedFor(s, form.form_data[FieldOf(s)])

SameQuestion ==
    /\ formState = before.form
    /\ reportsTable = before.rows
    /\ Len(replies) = 1
    /\ replies[1].to = UserJid

\* C27: at every form step, an input that fails the step's validation leaves
\* the stored step and the stored form data unchanged and only sends an error
\* message to the user; the stored state changes only on a valid input or on
\* 'cancel'.
C27_InvalidInputChangesNothing ==
    FormBefore =>
       /\ messageText \in WrongAnswers(before.form.current_form_step) => SameQuestion
       /\ formState # before.form =>
             messageText \in Answers(before.form.current_form_step) \cup CancelWords

\* a text of 1001 characters came at the response-moments step and the form
\* stayed there
C27_Witness ==
    /\ FormBefore
    /\ FormAt(before.form, STEPS.RESPONSE_MOMENTS)
    /\ messageText = LongText
    /\ formState = before.form
    /\ Len(replies) = 1

\* the user had a test-report session when the latest message came
SessionBefore == PrivateHandled /\ hasActiveTestReport(before.session)

\* the command a private message is when the user has neither a form nor a
\* session: the handler it calls
CommandHandler(words) ==
    LET typed == toLowerCase(trim(words))
    IN  CASE typed = <<"e", "v", "a", "n", "g", "e", "l", "i", "s", "m">> -> <<"startReportForm">>
          [] typed \in {<<"h", "e", "l", "p">>, <<"!", "h", "e", "l", "p">>} -> <<"sendHelpMessage">>
          [] typed \in {<<"t", "e", "s", "t", "r", "e", "p", "o", "r", "t">>, <<"!", "t", "e", "s", "t", "r", "e", "p", "o", "r", "t">>} -> <<"startTestReport">>
          [] OTHER -> <<>>

SendsOf(reportId) == {k \in DOMAIN outbox : outbox[k].reportId = reportId}

\* every call made so far has come to its end, retry included
AllDone == \A i \in DOMAIN calls : calls[i].at = "done"

\* the row of the report
RowOf(reportId) ==
    reportsTable[CHOOSE k \in DOMAIN reportsTable : reportsTable[k].id = reportId]

\* C24: for any report, across the first attempt and the delayed retry of
\* postReportToGroup and across repeated calls for the same report id, the
\* report's message is sent to its group at most once, and a report whose
\* message was sent ends up marked as posted.
C24_SentAtMostOnceAndMarked ==
    \A k \in DOMAIN reportsTable :
        LET reportId == reportsTable[k].id
        IN  /\ Cardinality(SendsOf(reportId)) <= 1
            /\ (AllDone /\ SendsOf(reportId) # {}) => reportsTable[k].posted_to_group

\* the first half of C24 alone, for one call: its message is sent at most once
OneCallSendsOnce ==
    Len(calls) = 1 => \A k \in DOMAIN reportsTable :
                          Cardinality(SendsOf(reportsTable[k].id)) <= 1

\* the second half of C24 alone
SentEndsMarked ==
    \A k \in DOMAIN reportsTable :
        (AllDone /\ SendsOf(reportsTable[k].id) # {}) => reportsTable[k].posted_to_group

\* what does hold of the posting: a message goes only to the group of the
\* report's assembly, never for an id without a report, never in a call that
\* began after the report was marked, each call sends at most twice, and a
\* marked report had its message sent
PostedToOwnGroupOnly ==
    /\ \A k \in DOMAIN outbox :
          /\ \E r \in DOMAIN reportsTable : reportsTable[r].id = outbox[k].reportId
          /\ outbox[k].to = GroupOf(RowOf(outbox[k].reportId))
          /\ outbox[k].to # <<>>
    /\ Len(outbox) <= 2 * Len(calls)
    /\ \A k \in DOMAIN reportsTable :
          reportsTable[k].posted_to_group => SendsOf(reportsTable[k].id) # {}

(***************************************************************************)
(* Claims about deleted messages (DeleteSpec)                              *)
(***************************************************************************)
\* the reports saved from the message with the key
ReportsOf(key) == {s.reportId : s \in {x \in savedFrom : x.key = key}}

\* the deletion notices sent so far
NoticesSent == {k \in DOMAIN outbox : outbox[k].kind = "Report has been deleted."}

\* every report saved from a group message is still in the table
RowsKept ==
    \A s \in savedFrom : \E k \in DOMAIN reportsTable : reportsTable[k].id = s.reportId

\* C25: if a group message that handleGroupMessage saved as a report is later
\* deleted (messages.delete or a REVOKE protocol message) and no database or
\* transport call fails, the stored report of that message is deleted from
\* the table and a deletion notice is sent to the group; a deleted message
\* that was no saved report changes nothing and sends nothing.
C25_DeletedReportRemovedAndNoticed ==
    ~deleted.failed =>
       /\ \A i \in DOMAIN deleted.keys : \A reportId \in ReportsOf(deleted.keys[i]) :
             /\ \A k \in DOMAIN reportsTable : reportsTable[k].id # reportId
             /\ \E k \in NoticesSent :
                   /\ outbox[k].reportId = reportId
                   /\ outbox[k].to = deleted.keys[i].remoteJid
       /\ (\A i \in DOMAIN deleted.keys : ReportsOf(deleted.keys[i]) = {}) =>
             RowsKept /\ NoticesSent = {}

\* the second half of C25 holds, and more than it: no deletion event removes
\* a row or sends a notice, since no row of a group report carries the id of
\* its message
DeletionChangesNothing ==
    /\ \A k \in DOMAIN reportsTable : reportsTable[k].wa_message_id = Null
    /\ RowsKept
    /\ NoticesSent = {}

(***************************************************************************)
(* Claims about the monthly distribution (MonthlySpec)                     *)
(***************************************************************************)
\* the assemblies as a set
AllAssemblies == {Assemblies[k] : k \in DOMAIN Assemblies}

\* the reports of the assembly dated in the month of the run's period
InPeriod(a) ==
    {k \in DOMAIN reportsTable :
        /\ reportsTable[k].assembly_id = a.id
        /\ SubSeq(reportsTable[k].activity_date.s, 1, 7) = <<"2", "0", "2", "6", "-", "0", "2">>}

\* the messages of the run that carry the report of the assembly
SentAbout(a) == SelectSeq(outbox, LAMBDA message : message.lines = <<a.name>>)

\* the messages of the run that went to the group of the assembly
SentInto(a) == SelectSeq(outbox, LAMBDA message : message.to = a.whatsapp_group_id)

\* nothing failed for the assembly in the run: its generation did not throw,
\* the socket is open, the assemblies could be listed and none of the calls
\* of its own try threw
Spared(a) ==
    /\ a.id \notin monthlyRun.generationFailed
    /\ monthlyRun.socket = "open"
    /\ monthlyRun.failures # <<>>
    /\ monthlyRun.failures[a.id] = "none"

GenerationFailureSpares ==
    /\ pc = "distributed"
    /\ monthlyRun.generationFailed = {1}
    /\ InPeriod(Assemblies[1]) # {}
    /\ InPeriod(Assemblies[3]) # {}
    /\ Len(SentAbout(Assemblies[3])) = 2
    /\ SentAbout(Assemblies[1]) = <<>>

=============================================================================
